---- MODULE Spec2Model ----
(***************************************************************************)
(* A model of the call-analytics data layer:                               *)
(*   - the resilient request client (the global.fetch wrapper of the       *)
(*     supabase client, with checkSupabaseConnection),                     *)
(*   - the transcript ingestion pipeline (DatabaseService),                *)
(*   - the metrics stabilization hooks (useRealTimeTeamMetrics),           *)
(*   - the real-time metrics provider (RealTimeMetricsProvider).           *)
(* Each component has its own specification over the shared variables.     *)
(***************************************************************************)
EXTENDS Integers, Sequences, FiniteSets, TLC

(***************************************************************************)
(* Bounds of the model                                                     *)
(***************************************************************************)
\* The cumulative failure counter is followed up to this value.
MaxFailures == 6

\* The call slots of the request client: one ordinary call and one
\* connection check can be in flight at the same time.
PlainCalls == {"c1"}
PingCalls == {"p1"}
Calls == PlainCalls \cup PingCalls

(***************************************************************************)
(* Program constants                                                       *)
(***************************************************************************)
MAX_CONNECTION_ATTEMPTS == 5
maxRetries == 3
BackoffBaseMs == 1000
BackoffCapMs == 10000
RateLimitBaseMs == 2000

VARIABLES
  \* ---- request client ----
  isSupabaseConnected,  \* module flag isSupabaseConnected
  connectionAttempts,   \* module counter connectionAttempts
  isOffline,            \* errorHandler.isOffline
  pc,                   \* per call: where the call is
  kind,                 \* per call: "plain" or "ping" (checkSupabaseConnection)
  retryCount,           \* per call: the wrapper's retryCount
  lastError,            \* per call: the wrapper's lastError
  result,               \* per call: how the wrapper ended
  netAttempts,          \* per plain call: fetch(url, options) invocations so far
  seen,                 \* per plain call: classes of attempt outcomes met so far
  lastResp,             \* per plain call: class of the latest attempt outcome
  delays,               \* per plain call: the delays slept so far, in ms
  emitted,              \* events and error reports issued by the latest step
  raisedInStreak,       \* CONNECTION_FAILED reports since the counter was last 0
  sinceFailure,         \* a failed attempt happened since the last ok response
  retryHook             \* a CONNECTION_FAILED report offered its retry hook

clientVars == <<isSupabaseConnected, connectionAttempts, isOffline, pc, kind,
                retryCount, lastError, result, netAttempts, seen, lastResp,
                delays, emitted, raisedInStreak, sinceFailure, retryHook>>

VARIABLES
  \* ---- transcript ingestion (DatabaseService.saveTranscriptToDatabase) ----
  ipc,               \* per ingestion: where saveTranscriptToDatabase is
  userArg,           \* per ingestion: the userId argument ("" when null)
  finalUserId,       \* per ingestion: finalUserId
  transcriptId,      \* per ingestion: transcriptId (0 before uuidv4())
  payloadCols,       \* per ingestion: optional columns of the payload sent
  writeLog,          \* per ingestion: outcomes of the detail writes so far
  sent,              \* per ingestion: deliveries of the current write request
  applied,           \* per ingestion: times the store applied its detail write
  summaryAttempted,  \* per ingestion: updateCallsTable was called
  threw,             \* per ingestion: the derivation threw
  callData,          \* per ingestion: the callData passed to updateCallsTable
  iResult,           \* per ingestion: the returned { id, error }
  call_transcripts,  \* the detail table: physical rows
  calls,             \* the summary table: physical rows
  uuidCounter,       \* uuidv4() values handed out so far
  started,           \* ingestions started so far
  sessionSeen,       \* per ingestion: the user supabase.auth.getUser() gave
  probeSeen          \* per ingestion: the columns checkColumnExists found

ingestVars == <<probeSeen, sessionSeen, ipc, userArg, finalUserId, transcriptId, payloadCols,
                writeLog, sent, applied, summaryAttempted, threw, callData,
                iResult, call_transcripts, calls, uuidCounter, started>>

VARIABLES
  \* ---- metrics stabilization (useRealTimeTeamMetrics) ----
  hookVersion,    \* which useRealTimeTeamMetrics rendered last
  rawMetrics,     \* the metrics value useSharedTeamMetrics returned
  stableMetrics   \* the stableMetrics computed from it

stableVars == <<hookVersion, rawMetrics, stableMetrics>>

VARIABLES
  \* ---- real-time metrics provider (RealTimeMetricsProvider) ----
  phase,        \* the provider: "init", "mounted" or "unmounted"
  subscribed,   \* the 'metrics-changes' channel is subscribed
  metrics,      \* the provider's metrics state
  fetchPc,      \* per fetchMetrics invocation: "idle" or "pending"
  fetchOrigin,  \* per fetchMetrics invocation: what started it
  toasted,      \* toasts shown by the latest step
  \* ---- PerformanceMetrics component (unnamed/part_001) ----
  perfPc,       \* "init", "pending" (its one fetch is out) or "done"
  perfMetrics,  \* its metrics state: "zeros", "demo" or a summary row
  perfLoading   \* its isLoading state

perfVars == <<perfPc, perfMetrics, perfLoading>>

VARIABLES
  \* ---- fixNeutralSentiments of the provider ----
  repairPc,     \* "idle", "fixing" (fixCallSentiments is out) or "refetch";
                \* isUpdating is true exactly when it is not "idle"
  repairToasts  \* toasts the latest invocation has shown

repairVars == <<repairPc, repairToasts>>

metricsVars ==
  <<phase, subscribed, metrics, fetchPc, fetchOrigin, toasted, perfVars,
    repairVars>>

VARIABLES
  \* ---- keyword trend aggregator (updateKeywordTrends) ----
  keyword_trends, \* the table: (keyword, category) -> count, 0 when no row
  ktApplied,      \* per row: writes of updates the store has applied
  ktDecreased,    \* a write has left a row's count smaller than before
  ktOverlapped,   \* two updates have been under way at the same time
  ktPc,           \* per update: "idle", "select", "write" or "done"
  ktKeywords,     \* per update: the keywords still to be processed
  ktCategory,     \* per update: its category
  ktData,         \* per update: the row its select returned
  ktResult,       \* per update: "none", "returned" or "threw"
  ktStarted       \* updates started so far

trendVars == <<keyword_trends, ktApplied, ktDecreased, ktOverlapped, ktPc, ktKeywords,
               ktCategory, ktData, ktResult, ktStarted>>

VARIABLES
  \* ---- sentiment trend aggregator (updateSentimentTrends) ----
  sentiment_trends, \* the table: rows inserted
  stPc,             \* per update: "idle", "insert" or "done"
  stData,           \* per update: its trendData
  stResult,         \* per update: "none", "returned" or "threw"
  stStarted         \* updates started so far

sentimentVars == <<sentiment_trends, stPc, stData, stResult, stStarted>>

VARIABLES
  \* ---- the snapshot fetchMetrics builds from a summary row ----
  summaryCounts,   \* the sentiment counts of the latest row fetched
  snapshotPercents \* the sentiment percentages of the snapshot set from it

snapshotVars == <<summaryCounts, snapshotPercents>>

VARIABLES
  \* ---- debounced loading flag (useStableLoadingState) ----
  loadingDelay,   \* the delay the hook was given, in ms (0: not rendered)
  isLoading,      \* the underlying loading signal
  stableLoading,  \* the flag surfaced to the display layer
  loadingTicks,   \* ticks for which isLoading has been true without a break
  debounceTimer,  \* ticks until the pending timer is due (-1: no timer)
  lastFetchTicks, \* ticks the latest completed fetch took (-1: none yet)
  lastSurfaced    \* stableLoading was true when that fetch completed

loadingVars == <<loadingDelay, isLoading, stableLoading, loadingTicks,
                 debounceTimer, lastFetchTicks, lastSurfaced>>

VARIABLES
  \* ---- audio duration (calculateAudioDuration) ----
  audioSize,     \* audioFile.size of the latest call, in bytes
  audioEvent,    \* "none", "loadedmetadata" or "error"
  audioSeconds   \* the value the promise resolved with

durationVars == <<audioSize, audioEvent, audioSeconds>>

VARIABLES
  \* ---- processMetricsData (utils/metricsProcessor.ts) ----
  processInput,  \* the arguments of the latest call and what
                 \* formatMetricsForDisplay did for them
  processResult  \* what the call returned

processVars == <<processInput, processResult>>

vars ==
  <<clientVars, ingestVars, stableVars, metricsVars, trendVars,
  sentimentVars, snapshotVars, loadingVars, durationVars, processVars>>

notClientVars ==
  <<ingestVars, stableVars, metricsVars, trendVars, sentimentVars,
  snapshotVars, loadingVars, durationVars, processVars>>
notIngestVars ==
  <<clientVars, stableVars, metricsVars, trendVars, sentimentVars,
  snapshotVars, loadingVars, durationVars, processVars>>
notStableVars ==
  <<clientVars, ingestVars, metricsVars, trendVars, sentimentVars,
  snapshotVars, loadingVars, durationVars, processVars>>
notMetricsVars ==
  <<clientVars, ingestVars, stableVars, trendVars, sentimentVars,
  snapshotVars, loadingVars, durationVars, processVars>>
notTrendVars ==
  <<clientVars, ingestVars, stableVars, metricsVars, sentimentVars,
  snapshotVars, loadingVars, durationVars, processVars>>
notSentimentVars ==
  <<clientVars, ingestVars, stableVars, metricsVars, trendVars,
  snapshotVars, loadingVars, durationVars, processVars>>
notSnapshotVars ==
  <<clientVars, ingestVars, stableVars, metricsVars, trendVars,
  sentimentVars, loadingVars, durationVars, processVars>>
notLoadingVars ==
  <<clientVars, ingestVars, stableVars, metricsVars, trendVars,
  sentimentVars, snapshotVars, durationVars, processVars>>
notDurationVars ==
  <<clientVars, ingestVars, stableVars, metricsVars, trendVars,
  sentimentVars, snapshotVars, loadingVars, processVars>>
notProcessVars ==
  <<clientVars, ingestVars, stableVars, metricsVars, trendVars,
  sentimentVars, snapshotVars, loadingVars, durationVars>>

Min(a, b) == IF a <= b THEN a ELSE b

\* The observations (attempt count, outcomes, delays) are kept for the
\* ordinary calls; f is such a record of observations.
Note(f, c, v) == IF c \in DOMAIN f THEN [f EXCEPT ![c] = v] ELSE f

(***************************************************************************)
(* Request client: src/src/services/events/EventsService.ts 872-1118       *)
(***************************************************************************)
\* What one network attempt can bring back: a response (status, and whether
\* its body holds the uuid syntax error text), or a rejection of fetch.
Statuses == {200, 400, 401, 429, 500}
Responses ==
  {[status |-> s, uuidText |-> u] : s \in Statuses, u \in BOOLEAN} \
  {[status |-> 200, uuidText |-> TRUE]}

\* response.ok
ResponseOk(r) == r.status >= 200 /\ r.status <= 299

\* responseText.includes("invalid input syntax for type uuid")
IsUuidError(r) == r.uuidText

\* response.status === 429
IsRateLimited(r) == r.status = 429

\* response.status >= 500
IsServerError(r) == r.status >= 500

\* response.status === 401 || response.status === 403
IsAuthError(r) == r.status = 401 \/ r.status = 403

\* The class of a non-ok response, in the order the wrapper tests it.
ResponseClass(r) ==
  IF ResponseOk(r) THEN "ok"
  ELSE IF IsUuidError(r) THEN "uuid"
  ELSE IF IsRateLimited(r) THEN "rate"
  ELSE IF IsAuthError(r) THEN "auth"
  ELSE IF IsServerError(r) THEN "server"
  ELSE "other"

\* The error report issued for a non-ok response before it is returned.
StatusReport(r) ==
  IF IsAuthError(r) THEN {"AUTH_ERROR"}
  ELSE IF IsServerError(r) THEN {"SERVER_ERROR"}
  ELSE {}

\* Mutant: every backoff delay is the base delay.
BackoffDelay_Constant(n) == BackoffBaseMs

\* Math.min(1000 * Math.pow(2, retryCount), 10000)
BackoffDelay(n) == Min(BackoffBaseMs * (2 ^ n), BackoffCapMs)

\* Mutant: the wait does not grow with the attempt.
RateLimitDelay_Flat(n) == RateLimitBaseMs

\* 2000 * (retryCount + 1)
RateLimitDelay(n) == RateLimitBaseMs * (n + 1)

\* Mutant: the report is made one failed call early.
ShouldRaiseConnectionFailed_OneEarly(n) == n >= MAX_CONNECTION_ATTEMPTS - 1

\* Mutant: the report is made only when the counter reaches the threshold.
ShouldRaiseConnectionFailed_AtThresholdOnly(n) == n = MAX_CONNECTION_ATTEMPTS

\* connectionAttempts >= MAX_CONNECTION_ATTEMPTS
ShouldRaiseConnectionFailed(n) == n >= MAX_CONNECTION_ATTEMPTS

\* Mutant: a 5xx response is waited on and tried again like a 429.
RetriesResponse_ServerToo(r) == IsRateLimited(r) \/ IsServerError(r)

\* Whether a non-ok, non-uuid response is waited on and tried again
\* (otherwise it is returned to the caller).
RetriesResponse(r) == IsRateLimited(r)

\* Mutant: the loop allows one more attempt.
LoopContinues_OneMore(n) == n <= maxRetries

\* while (retryCount < maxRetries)
LoopContinues(n) == n < maxRetries

InFlight == {c \in Calls : pc[c] \in {"fetching", "backoff", "ratewait"}}

InitClient ==
  /\ isSupabaseConnected = FALSE
  /\ connectionAttempts = 0
  /\ isOffline = FALSE
  /\ pc = [c \in Calls |-> "idle"]
  /\ kind = [c \in Calls |-> "plain"]
  /\ retryCount = [c \in Calls |-> 0]
  /\ lastError = [c \in Calls |-> "undefined"]
  /\ result = [c \in Calls |-> "none"]
  /\ netAttempts = [c \in PlainCalls |-> 0]
  /\ seen = [c \in PlainCalls |-> {}]
  /\ lastResp = [c \in PlainCalls |-> "none"]
  /\ delays = [c \in PlainCalls |-> <<>>]
  /\ emitted = {}
  /\ raisedInStreak = 0
  /\ sinceFailure = FALSE
  /\ retryHook = FALSE

\* Mutant: the offline flag is not consulted.
Begin_IgnoreOffline(c, k) ==
  /\ kind' = [kind EXCEPT ![c] = k]
  /\ retryCount' = [retryCount EXCEPT ![c] = 0]
  /\ lastError' = [lastError EXCEPT ![c] = "undefined"]
  /\ seen' = Note(seen, c, {})
  /\ lastResp' = Note(lastResp, c, "none")
  /\ delays' = Note(delays, c, <<>>)
  /\ pc' = [pc EXCEPT ![c] = "fetching"]
  /\ result' = [result EXCEPT ![c] = "none"]
  /\ netAttempts' = Note(netAttempts, c, 1)

\* The wrapper is entered for call c of kind k (lines 887-904): the offline
\* test, then the first fetch.
Begin(c, k) ==
  /\ kind' = [kind EXCEPT ![c] = k]
  /\ retryCount' = [retryCount EXCEPT ![c] = 0]
  /\ lastError' = [lastError EXCEPT ![c] = "undefined"]
  /\ seen' = Note(seen, c, {})
  /\ lastResp' = Note(lastResp, c, "none")
  /\ delays' = Note(delays, c, <<>>)
  /\ IF isOffline
       THEN /\ pc' = [pc EXCEPT ![c] = "done"]
            /\ result' = [result EXCEPT ![c] = "offline"]
            /\ netAttempts' = Note(netAttempts, c, 0)
       ELSE /\ pc' = [pc EXCEPT ![c] = "fetching"]
            /\ result' = [result EXCEPT ![c] = "none"]
            /\ netAttempts' = Note(netAttempts, c, 1)

\* A caller issues a request through the client.
StartCall(c) ==
  /\ UNCHANGED notClientVars
  /\ pc[c] = "idle"
  /\ connectionAttempts + Cardinality(InFlight) < MaxFailures
  /\ Begin(c, "plain")
  /\ emitted' = {}
  /\ UNCHANGED <<isSupabaseConnected, connectionAttempts, isOffline,
                 raisedInStreak, sinceFailure, retryHook>>

\* The inner catch (lines 961-975): the attempt threw.
CaughtAttempt(c, err, cls, reports) ==
  /\ lastError' = [lastError EXCEPT ![c] = err]
  /\ isSupabaseConnected' = FALSE
  /\ emitted' = reports \cup {"supabase-connection-lost"}
  /\ delays' = Note(delays, c, Append(delays[c], BackoffDelay(retryCount[c])))
  /\ pc' = [pc EXCEPT ![c] = "backoff"]
  /\ seen' = Note(seen, c, seen[c] \cup {cls})
  /\ lastResp' = Note(lastResp, c, cls)
  /\ sinceFailure' = TRUE
  /\ UNCHANGED <<connectionAttempts, isOffline, kind, retryCount, result,
                 netAttempts, raisedInStreak, retryHook>>

\* fetch(url, options) rejects.
FetchThrows(c) ==
  /\ UNCHANGED notClientVars
  /\ pc[c] = "fetching"
  /\ CaughtAttempt(c, "network", "neterr", {})

\* fetch(url, options) resolves with response r (lines 904-960).
FetchResponse(c, r) ==
  /\ UNCHANGED notClientVars
  /\ pc[c] = "fetching"
  /\ IF ResponseOk(r)
       THEN /\ IF ~isSupabaseConnected
                 THEN /\ isSupabaseConnected' = TRUE
                      /\ connectionAttempts' = 0
                      /\ raisedInStreak' = 0
                      /\ emitted' = {"supabase-connection-restored"}
                 ELSE /\ emitted' = {}
                      /\ UNCHANGED <<isSupabaseConnected, connectionAttempts,
                                     raisedInStreak>>
            /\ pc' = [pc EXCEPT ![c] = "done"]
            /\ result' = [result EXCEPT ![c] = "ok"]
            /\ lastResp' = Note(lastResp, c, "ok")
            /\ sinceFailure' = FALSE
            /\ UNCHANGED <<isOffline, kind, retryCount, lastError, netAttempts,
                           seen, delays, retryHook>>
     ELSE IF IsUuidError(r)
       THEN \* throw new Error(`UUID format error ...`) inside the inner try
            CaughtAttempt(c, "uuid", "uuid", {"UUID_FORMAT_ERROR"})
     ELSE IF RetriesResponse(r)
       THEN /\ emitted' = StatusReport(r)
            /\ delays' = Note(delays, c, Append(delays[c], RateLimitDelay(retryCount[c])))
            /\ pc' = [pc EXCEPT ![c] = "ratewait"]
            /\ seen' = Note(seen, c, seen[c] \cup {ResponseClass(r)})
            /\ lastResp' = Note(lastResp, c, ResponseClass(r))
            /\ sinceFailure' = TRUE
            /\ UNCHANGED <<isSupabaseConnected, connectionAttempts, isOffline,
                           kind, retryCount, lastError, result, netAttempts,
                           raisedInStreak, retryHook>>
     ELSE /\ emitted' = StatusReport(r)
          /\ pc' = [pc EXCEPT ![c] = "done"]
          /\ result' = [result EXCEPT ![c] = "response"]
          /\ seen' = Note(seen, c, seen[c] \cup {ResponseClass(r)})
          /\ lastResp' = Note(lastResp, c, ResponseClass(r))
          /\ sinceFailure' = TRUE
          /\ UNCHANGED <<isSupabaseConnected, connectionAttempts, isOffline,
                         kind, retryCount, lastError, netAttempts, delays,
                         raisedInStreak, retryHook>>

\* The delay is over: retryCount++, then the loop test (lines 902, 954, 974)
\* and, when the loop is left, lines 978-1012.
Wake(c) ==
  /\ UNCHANGED notClientVars
  /\ pc[c] \in {"backoff", "ratewait"}
  /\ retryCount' = [retryCount EXCEPT ![c] = @ + 1]
  /\ IF LoopContinues(retryCount[c] + 1)
       THEN /\ pc' = [pc EXCEPT ![c] = "fetching"]
            /\ netAttempts' = Note(netAttempts, c, netAttempts[c] + 1)
            /\ emitted' = {}
            /\ UNCHANGED <<connectionAttempts, raisedInStreak, retryHook, result>>
       ELSE /\ connectionAttempts' = connectionAttempts + 1
            /\ IF ShouldRaiseConnectionFailed(connectionAttempts + 1)
                 THEN /\ emitted' = {"CONNECTION_FAILED", "SUPABASE_CONNECTION"}
                      /\ raisedInStreak' = raisedInStreak + 1
                      /\ retryHook' = TRUE
                 ELSE /\ emitted' = {"SUPABASE_CONNECTION"}
                      /\ UNCHANGED <<raisedInStreak, retryHook>>
            /\ pc' = [pc EXCEPT ![c] = "done"]
            /\ result' = [result EXCEPT ![c] = "thrown"]
            /\ UNCHANGED netAttempts
  /\ UNCHANGED <<isSupabaseConnected, isOffline, kind, lastError, seen,
                 lastResp, delays, sinceFailure>>

\* The per-call fields of a slot whose call is over go back to their start.
Release(c) ==
  /\ pc' = [pc EXCEPT ![c] = "idle"]
  /\ kind' = [kind EXCEPT ![c] = "plain"]
  /\ retryCount' = [retryCount EXCEPT ![c] = 0]
  /\ lastError' = [lastError EXCEPT ![c] = "undefined"]
  /\ result' = [result EXCEPT ![c] = "none"]
  /\ netAttempts' = Note(netAttempts, c, 0)
  /\ seen' = Note(seen, c, {})
  /\ lastResp' = Note(lastResp, c, "none")
  /\ delays' = Note(delays, c, <<>>)

\* The caller of a plain call takes the wrapper's result.
Return(c) ==
  /\ UNCHANGED notClientVars
  /\ pc[c] = "done"
  /\ kind[c] = "plain"
  /\ Release(c)
  /\ emitted' = {}
  /\ UNCHANGED <<isSupabaseConnected, connectionAttempts, isOffline,
                 raisedInStreak, sinceFailure, retryHook>>

\* checkSupabaseConnection issues its ping query (lines 1042-1051); it is
\* started on module load, on coming back online and on the tab becoming
\* visible while not connected.
CheckSupabaseConnection(c) ==
  /\ UNCHANGED notClientVars
  /\ pc[c] = "idle"
  /\ connectionAttempts + Cardinality(InFlight) < MaxFailures
  /\ Begin(c, "ping")
  /\ emitted' = {}
  /\ UNCHANGED <<isSupabaseConnected, connectionAttempts, isOffline,
                 raisedInStreak, sinceFailure, retryHook>>

\* The retry hook of a CONNECTION_FAILED report (lines 989-992).
ManualRetry(c) ==
  /\ UNCHANGED notClientVars
  /\ retryHook
  /\ pc[c] = "idle"
  /\ connectionAttempts' = 0
  /\ raisedInStreak' = 0
  /\ Begin(c, "ping")
  /\ emitted' = {}
  /\ UNCHANGED <<isSupabaseConnected, isOffline, sinceFailure, retryHook>>

\* checkSupabaseConnection after its query came back (lines 1053-1098).
PingComplete(c) ==
  /\ UNCHANGED notClientVars
  /\ pc[c] = "done"
  /\ kind[c] = "ping"
  /\ Release(c)
  /\ IF result[c] = "ok"
       THEN /\ isSupabaseConnected' = TRUE
            /\ connectionAttempts' = 0
            /\ raisedInStreak' = 0
            /\ emitted' = {"supabase-connection-restored"}
       ELSE /\ isSupabaseConnected' = FALSE
            /\ \/ emitted' = {"DB_PING_FAILED"}
               \/ /\ result[c] \in {"thrown", "offline"}
                  /\ emitted' = {"SUPABASE_CONNECTION"}
            /\ UNCHANGED <<connectionAttempts, raisedInStreak>>
  /\ UNCHANGED <<isOffline, sinceFailure, retryHook>>

\* The environment's connectivity signal flips the offline flag.
GoOffline ==
  /\ UNCHANGED notClientVars
  /\ ~isOffline
  /\ isOffline' = TRUE
  /\ emitted' = {}
  /\ UNCHANGED <<isSupabaseConnected, connectionAttempts, pc, kind, retryCount,
                 lastError, result, netAttempts, seen, lastResp, delays,
                 raisedInStreak, sinceFailure, retryHook>>

GoOnline ==
  /\ UNCHANGED notClientVars
  /\ isOffline
  /\ isOffline' = FALSE
  /\ emitted' = {}
  /\ UNCHANGED <<isSupabaseConnected, connectionAttempts, pc, kind, retryCount,
                 lastError, result, netAttempts, seen, lastResp, delays,
                 raisedInStreak, sinceFailure, retryHook>>

NextClient ==
  \/ \E c \in PlainCalls : StartCall(c)
  \/ \E c \in Calls : FetchThrows(c)
  \/ \E c \in Calls, r \in Responses : FetchResponse(c, r)
  \/ \E c \in Calls : Wake(c)
  \/ \E c \in Calls : Return(c)
  \/ \E c \in PingCalls : CheckSupabaseConnection(c)
  \/ \E c \in PingCalls : ManualRetry(c)
  \/ \E c \in Calls : PingComplete(c)
  \/ GoOffline
  \/ GoOnline

(***************************************************************************)
(* Transcript ingestion: src/src/services/events/EventsService.ts 247-471  *)
(***************************************************************************)
\* Ingestions started in one run of the model.
MaxIngestions == 2

\* The saveTranscriptToDatabase invocation followed. Invocations share no
\* memory, only the store's tables, which they key by their own fresh
\* identifiers, so they are followed one after the other.  Every ingestion
\* followed is of the same transcription result and file: neither enters
\* the identifier.
Ingests == {"i1"}

\* Owner identifiers: none (null / empty), the argument, the session's user,
\* or 'anonymous-' followed by the n-th uuid.
NoUser == [kind |-> "none", n |-> 0]
ArgUser == [kind |-> "argument", n |-> 0]
SessionUser == [kind |-> "session", n |-> 0]
AnonymousUser(n) == [kind |-> "anonymous", n |-> n]

\* getUser() has not been called by the ingestion.
Unasked == [kind |-> "unasked", n |-> 0]

\* The two optional keyword columns of call_transcripts.
OptionalCols == {"keywords", "key_phrases"}

\* Math.random() * 20 - 10 lies in [-10, 10): the values followed are the
\* two ends of that range.
Jitters == {-10, 9}

\* The identifier '' of a result returned by the outer catch.
NoId == 0

NoCallData == [n |-> 0, id |-> NoId, user_id |-> NoUser,
               talk_ratio_agent |-> 0, talk_ratio_customer |-> 0]

RowsWithId(table, id) == {r \in table : r.id = id}

\* Mutant: the write adds a row whether or not the identifier is there.
Upsert_AlwaysInsert(table, row) ==
  table \cup {[row EXCEPT !.n = Cardinality(table) + 1]}

\* .upsert(row, { onConflict: 'id' }): the row with that id is replaced,
\* or the row is added.
Upsert(table, row) ==
  IF RowsWithId(table, row.id) # {}
    THEN {IF r.id = row.id THEN [row EXCEPT !.n = r.n] ELSE r : r \in table}
    ELSE table \cup {[row EXCEPT !.n = Cardinality(table) + 1]}

\* transcriptData / updatedData as the store keeps it: its key and owner.
DetailRow(i) ==
  [n |-> 0, id |-> transcriptId[i], user_id |-> finalUserId[i]]

\* talk_ratio_agent: 50 + (Math.random() * 20 - 10)
TalkRatioAgent(j) == 50 + j

\* talk_ratio_customer: 50 - (Math.random() * 20 - 10)
TalkRatioCustomer(j) == 50 - j

\* Mutant: the summary row gets an identifier of its own.
SummaryRow_OwnId(i, j1, j2) ==
  [n |-> 0, id |-> uuidCounter + 1, user_id |-> finalUserId[i],
   talk_ratio_agent |-> TalkRatioAgent(j1),
   talk_ratio_customer |-> TalkRatioCustomer(j2)]

\* The callData of lines 371-382; j1 and j2 are the two Math.random() draws.
SummaryRow(i, j1, j2) ==
  [n |-> 0, id |-> transcriptId[i], user_id |-> finalUserId[i],
   talk_ratio_agent |-> TalkRatioAgent(j1),
   talk_ratio_customer |-> TalkRatioCustomer(j2)]

\* insertError.message.includes('key_phrases') || ...includes('column')
IsColumnError(err) == err = "column"

InitIngest ==
  /\ ipc = [i \in Ingests |-> "idle"]
  /\ userArg = [i \in Ingests |-> NoUser]
  /\ finalUserId = [i \in Ingests |-> NoUser]
  /\ transcriptId = [i \in Ingests |-> NoId]
  /\ payloadCols = [i \in Ingests |-> {}]
  /\ writeLog = [i \in Ingests |-> <<>>]
  /\ sent = [i \in Ingests |-> 0]
  /\ applied = [i \in Ingests |-> 0]
  /\ summaryAttempted = [i \in Ingests |-> FALSE]
  /\ threw = [i \in Ingests |-> FALSE]
  /\ callData = [i \in Ingests |-> NoCallData]
  /\ iResult = [i \in Ingests |-> [id |-> NoId, error |-> "none"]]
  /\ call_transcripts = {}
  /\ calls = {}
  /\ uuidCounter = 0
  /\ started = 0
  /\ sessionSeen = [i \in Ingests |-> Unasked]
  /\ probeSeen = [i \in Ingests |-> {}]

\* saveTranscriptToDatabase(result, file, userId, numSpeakers) is called.
IngestStart(i, u) ==
  /\ UNCHANGED notIngestVars
  /\ ipc[i] = "idle"
  /\ started < MaxIngestions
  /\ started' = started + 1
  /\ userArg' = [userArg EXCEPT ![i] = u]
  /\ ipc' = [ipc EXCEPT ![i] = "derive"]
  /\ UNCHANGED <<probeSeen, sessionSeen, finalUserId, transcriptId, payloadCols, writeLog, sent,
                 applied, summaryAttempted, threw, callData, iResult,
                 call_transcripts, calls, uuidCounter>>

\* Mutant: the outer catch returns no error.
CaughtByOuter_NullError(i) ==
  /\ iResult' = [iResult EXCEPT ![i] = [id |-> NoId, error |-> "null"]]
  /\ ipc' = [ipc EXCEPT ![i] = "done"]

\* The outer catch (lines 390-394): return { id: '', error }.
CaughtByOuter(i) ==
  /\ iResult' = [iResult EXCEPT ![i] = [id |-> NoId, error |-> "exception"]]
  /\ ipc' = [ipc EXCEPT ![i] = "done"]

\* splitBySpeaker, analyzeSentiment, extractKeywords and generateCallScore
\* return (lines 262-270); calculateAudioDuration is awaited next.
Derive(i) ==
  /\ UNCHANGED notIngestVars
  /\ ipc[i] = "derive"
  /\ ipc' = [ipc EXCEPT ![i] = "duration"]
  /\ UNCHANGED <<probeSeen, sessionSeen, userArg, finalUserId, transcriptId, payloadCols, writeLog,
                 sent, applied, summaryAttempted, threw, callData, iResult,
                 call_transcripts, calls, uuidCounter, started>>

\* Mutant: a throwing derivation is replaced by default values and the
\* pipeline goes on to persist a skeleton record.
DeriveThrows_Skeleton(i) ==
  /\ UNCHANGED notIngestVars
  /\ ipc[i] = "derive"
  /\ threw' = [threw EXCEPT ![i] = TRUE]
  /\ ipc' = [ipc EXCEPT ![i] = "duration"]
  /\ UNCHANGED <<probeSeen, sessionSeen, userArg, finalUserId, transcriptId, payloadCols, writeLog,
                 sent, applied, summaryAttempted, callData, iResult,
                 call_transcripts, calls, uuidCounter, started>>

\* One of the derivations throws: the outer try block is left.
DeriveThrows(i) ==
  /\ UNCHANGED notIngestVars
  /\ ipc[i] = "derive"
  /\ threw' = [threw EXCEPT ![i] = TRUE]
  /\ CaughtByOuter(i)
  /\ UNCHANGED <<probeSeen, sessionSeen, userArg, finalUserId, transcriptId, payloadCols, writeLog,
                 sent, applied, summaryAttempted, callData,
                 call_transcripts, calls, uuidCounter, started>>

\* Lines 284-329 once the owner is u and k uuids have been handed out: the
\* identifier is generated, the payload built and the first upsert issued.
IssueDetailWrite(i, u, k) ==
  /\ finalUserId' = [finalUserId EXCEPT ![i] = u]
  /\ transcriptId' = [transcriptId EXCEPT ![i] = k + 1]
  /\ uuidCounter' = k + 1
  /\ payloadCols' = [payloadCols EXCEPT ![i] = OptionalCols]
  /\ sent' = [sent EXCEPT ![i] = 0]
  /\ ipc' = [ipc EXCEPT ![i] = "write1"]

\* calculateAudioDuration resolves (line 273); with a userId argument the
\* pipeline runs on to the detail write, without one it asks the session.
DurationResolves(i) ==
  /\ UNCHANGED notIngestVars
  /\ ipc[i] = "duration"
  /\ IF userArg[i] # NoUser
       THEN IssueDetailWrite(i, userArg[i], uuidCounter)
       ELSE /\ ipc' = [ipc EXCEPT ![i] = "auth"]
            /\ UNCHANGED <<finalUserId, transcriptId, uuidCounter,
                           payloadCols, sent>>
  /\ UNCHANGED <<probeSeen, sessionSeen, userArg, writeLog, applied, summaryAttempted, threw,
                 callData, iResult, call_transcripts, calls, started>>

\* Mutant: the anonymous identifier is taken although the session has a user.
AuthResolves_AnonymousFirst(i, su) ==
  /\ UNCHANGED notIngestVars
  /\ ipc[i] = "auth"
  /\ sessionSeen' = [sessionSeen EXCEPT ![i] = su]
  /\ IssueDetailWrite(i, AnonymousUser(uuidCounter + 1), uuidCounter + 1)
  /\ UNCHANGED <<probeSeen, userArg, writeLog, applied, summaryAttempted, threw,
                 callData, iResult, call_transcripts, calls, started>>

\* supabase.auth.getUser() resolves with session user su (lines 280-281).
AuthResolves(i, su) ==
  /\ UNCHANGED notIngestVars
  /\ ipc[i] = "auth"
  /\ sessionSeen' = [sessionSeen EXCEPT ![i] = su]
  /\ IF su # NoUser
       THEN IssueDetailWrite(i, su, uuidCounter)
       ELSE IssueDetailWrite(i, AnonymousUser(uuidCounter + 1), uuidCounter + 1)
  /\ UNCHANGED <<probeSeen, userArg, writeLog, applied, summaryAttempted, threw,
                 callData, iResult, call_transcripts, calls, started>>

\* The store applies the pending detail upsert but its response is lost, and
\* the request client sends the same request again.
DetailWriteReplayed(i) ==
  /\ UNCHANGED notIngestVars
  /\ ipc[i] \in {"write1", "write2"}
  /\ sent[i] < maxRetries - 1
  /\ sent' = [sent EXCEPT ![i] = @ + 1]
  /\ applied' = [applied EXCEPT ![i] = @ + 1]
  /\ call_transcripts' = Upsert(call_transcripts, DetailRow(i))
  /\ UNCHANGED <<probeSeen, sessionSeen, ipc, userArg, finalUserId, transcriptId, payloadCols,
                 writeLog, summaryAttempted, threw, callData, iResult, calls,
                 uuidCounter, started>>

\* Mutant: a failed detail write falls through to the summary write.
DetailFailed_FallThrough(i, err) ==
  /\ ipc' = [ipc EXCEPT ![i] = "summary"]
  /\ summaryAttempted' = [summaryAttempted EXCEPT ![i] = TRUE]
  /\ UNCHANGED iResult

\* return { id: transcriptId, error } (lines 360 and 363).
DetailFailed(i, err) ==
  /\ iResult' = [iResult EXCEPT ![i] = [id |-> transcriptId[i], error |-> err]]
  /\ ipc' = [ipc EXCEPT ![i] = "done"]
  /\ UNCHANGED summaryAttempted

\* The detail upsert comes back with outcome o: "ok", an error whose message
\* names a column, another error, or an exception (lines 327-365).
DetailWriteResponds(i, o) ==
  /\ UNCHANGED notIngestVars
  /\ ipc[i] \in {"write1", "write2"}
  /\ o = "column" => sent[i] = 0
  /\ writeLog' = [writeLog EXCEPT ![i] = Append(@, o)]
  /\ IF o = "ok"
       THEN /\ call_transcripts' = Upsert(call_transcripts, DetailRow(i))
            /\ applied' = [applied EXCEPT ![i] = @ + 1]
            /\ ipc' = [ipc EXCEPT ![i] = "summary"]
            /\ summaryAttempted' = [summaryAttempted EXCEPT ![i] = TRUE]
            /\ UNCHANGED iResult
     ELSE IF o = "throws"
       THEN /\ CaughtByOuter(i)
            /\ UNCHANGED <<call_transcripts, applied, summaryAttempted>>
     ELSE IF ipc[i] = "write1" /\ IsColumnError(o)
       THEN /\ ipc' = [ipc EXCEPT ![i] = "probe"]
            /\ UNCHANGED <<call_transcripts, applied, summaryAttempted, iResult>>
     ELSE /\ DetailFailed(i, o)
          /\ UNCHANGED <<call_transcripts, applied>>
  /\ UNCHANGED <<probeSeen, sessionSeen, userArg, finalUserId, transcriptId, payloadCols, sent, threw,
                 callData, calls, uuidCounter, started>>

\* Mutant: the second payload keeps both optional columns.
ReducedPayloadCols_Unreduced(hasKeywords, hasKeyPhrases) == OptionalCols

\* The optional columns of updatedData (lines 340-351).
ReducedPayloadCols(hasKeywords, hasKeyPhrases) ==
  (IF hasKeywords THEN {"keywords"} ELSE {}) \cup
  (IF hasKeyPhrases THEN {"key_phrases"} ELSE {})

\* Both checkColumnExists calls have answered (lines 343-356; an error or
\* exception of the rpc counts as false): the reduced payload is built and
\* the second upsert issued.
Probe(i, hasKeywords, hasKeyPhrases) ==
  /\ UNCHANGED notIngestVars
  /\ ipc[i] = "probe"
  /\ probeSeen' = [probeSeen EXCEPT ![i] =
       {c \in OptionalCols : (c = "keywords" /\ hasKeywords) \/
                             (c = "key_phrases" /\ hasKeyPhrases)}]
  /\ payloadCols' = [payloadCols EXCEPT ![i] =
       ReducedPayloadCols(hasKeywords, hasKeyPhrases)]
  /\ sent' = [sent EXCEPT ![i] = 0]
  /\ ipc' = [ipc EXCEPT ![i] = "write2"]
  /\ UNCHANGED <<sessionSeen, userArg, finalUserId, transcriptId, writeLog, applied,
                 summaryAttempted, threw, callData, iResult, call_transcripts,
                 calls, uuidCounter, started>>

\* Mutant: the result carries the failure of the summary write.
Succeeded_SummaryErrorReturned(i) ==
  /\ iResult' = [iResult EXCEPT ![i] =
       [id |-> transcriptId[i],
        error |-> IF ipc[i] = "edge" THEN "summary" ELSE "null"]]
  /\ ipc' = [ipc EXCEPT ![i] = "done"]
  /\ callData' = [callData EXCEPT ![i] = NoCallData]

\* return { id: transcriptId, error: null } (line 389); updateCallsTable
\* and its callData are over.
Succeeded(i) ==
  /\ iResult' = [iResult EXCEPT ![i] = [id |-> transcriptId[i], error |-> "null"]]
  /\ ipc' = [ipc EXCEPT ![i] = "done"]
  /\ callData' = [callData EXCEPT ![i] = NoCallData]

\* updateCallsTable: the upsert into calls comes back (lines 418-471); the
\* callData was built with the draws j1 and j2.
SummaryUpsertResponds(i, o, j1, j2) ==
  /\ UNCHANGED notIngestVars
  /\ ipc[i] = "summary"
  /\ IF o = "ok"
       THEN /\ calls' = Upsert(calls, SummaryRow(i, j1, j2))
            /\ Succeeded(i)
     ELSE IF o = "error"
       THEN /\ ipc' = [ipc EXCEPT ![i] = "edge"]
            /\ callData' = [callData EXCEPT ![i] = SummaryRow(i, j1, j2)]
            /\ UNCHANGED <<calls, iResult>>
     ELSE /\ Succeeded(i)
          /\ UNCHANGED calls
  /\ UNCHANGED <<probeSeen, sessionSeen, userArg, finalUserId, transcriptId, payloadCols, writeLog,
                 sent, applied, summaryAttempted, threw, call_transcripts,
                 uuidCounter, started>>

\* The insert_call_no_return edge function answers (lines 438-463); it
\* inserts the row when no row has that id.
EdgeResponds(i, o) ==
  /\ UNCHANGED notIngestVars
  /\ ipc[i] = "edge"
  /\ IF o = "ok"
       THEN /\ RowsWithId(calls, callData[i].id) = {}
            /\ calls' = calls \cup {[callData[i] EXCEPT !.n = Cardinality(calls) + 1]}
       ELSE UNCHANGED calls
  /\ Succeeded(i)
  /\ UNCHANGED <<probeSeen, sessionSeen, userArg, finalUserId, transcriptId, payloadCols, writeLog,
                 sent, applied, summaryAttempted, threw,
                 call_transcripts, uuidCounter, started>>

\* The caller has taken the result; the slot is free for another ingestion.
IngestReturn(i) ==
  /\ UNCHANGED notIngestVars
  /\ ipc[i] = "done"
  /\ ipc' = [ipc EXCEPT ![i] = "idle"]
  /\ userArg' = [userArg EXCEPT ![i] = NoUser]
  /\ sessionSeen' = [sessionSeen EXCEPT ![i] = Unasked]
  /\ probeSeen' = [probeSeen EXCEPT ![i] = {}]
  /\ finalUserId' = [finalUserId EXCEPT ![i] = NoUser]
  /\ transcriptId' = [transcriptId EXCEPT ![i] = NoId]
  /\ payloadCols' = [payloadCols EXCEPT ![i] = {}]
  /\ writeLog' = [writeLog EXCEPT ![i] = <<>>]
  /\ sent' = [sent EXCEPT ![i] = 0]
  /\ applied' = [applied EXCEPT ![i] = 0]
  /\ summaryAttempted' = [summaryAttempted EXCEPT ![i] = FALSE]
  /\ threw' = [threw EXCEPT ![i] = FALSE]
  /\ callData' = [callData EXCEPT ![i] = NoCallData]
  /\ iResult' = [iResult EXCEPT ![i] = [id |-> NoId, error |-> "none"]]
  /\ UNCHANGED <<call_transcripts, calls, uuidCounter, started>>

NextIngest ==
  \/ \E i \in Ingests, u \in {NoUser, ArgUser} : IngestStart(i, u)
  \/ \E i \in Ingests : Derive(i)
  \/ \E i \in Ingests : DeriveThrows(i)
  \/ \E i \in Ingests : DurationResolves(i)
  \/ \E i \in Ingests, su \in {NoUser, SessionUser} : AuthResolves(i, su)
  \/ \E i \in Ingests : DetailWriteReplayed(i)
  \/ \E i \in Ingests, o \in {"ok", "column", "other", "throws"} :
       DetailWriteResponds(i, o)
  \/ \E i \in Ingests, hk \in BOOLEAN, hp \in BOOLEAN : Probe(i, hk, hp)
  \/ \E i \in Ingests, o \in {"ok", "error", "throws"}, j1 \in Jitters, j2 \in Jitters :
       SummaryUpsertResponds(i, o, j1, j2)
  \/ \E i \in Ingests, o \in {"ok", "notok", "throws"} : EdgeResponds(i, o)
  \/ \E i \in Ingests : IngestReturn(i)


(***************************************************************************)
(* Metrics stabilization: src/src/services/events/EventsService.ts         *)
(* 602-664 (the hook with the 100 ms delay) and 751-816 (the hook with the *)
(* 400 ms delay).  Numbers are kept in hundredths.                         *)
(***************************************************************************)
Num(c) == <<"num", c>>
Undefined == <<"undefined">>
NaN == <<"NaN">>
IsNum(x) == x[1] = "num"

\* Math.round(x): the nearest integer, halves upwards; NaN for undefined.
MathRound(x) ==
  IF IsNum(x) THEN Num(100 * ((x[2] + 50) \div 100)) ELSE NaN

\* Math.round(x * 10) / 10
RoundToTenth(x) ==
  IF IsNum(x) THEN Num(10 * ((x[2] + 5) \div 10)) ELSE NaN

\* 100 - x
HundredMinus(x) == IF IsNum(x) THEN Num(10000 - x[2]) ELSE NaN

\* DEFAULT_TEAM_METRICS (lines 603-610)
DEFAULT_TEAM_METRICS ==
  [performanceScore |-> Num(7500), totalCalls |-> Num(4200),
   conversionRate |-> Num(2800), avgSentiment |-> Num(68),
   topKeywords |-> "default", agent |-> Num(5500), customer |-> Num(4500)]

\* The raw values followed: null, or an object in which each field may be
\* missing; avgTalkRatio may be missing as a whole or in part.
RawScores == {Undefined, Num(7549), Num(12040), Num(-500)}
RawRates == {Undefined, Num(2825)}
RawTotals == {Undefined, Num(4200)}
RawSentiments == {Undefined, Num(68)}
RawKeywords == {"undefined", "some"}
RawAgents == {Undefined, Num(5549), Num(6000), Num(15000)}
RawCustomers == {Undefined, Num(4451), Num(6000)}

NullMetrics ==
  [isNull |-> TRUE, performanceScore |-> Undefined, conversionRate |-> Undefined,
   totalCalls |-> Undefined, avgSentiment |-> Undefined,
   topKeywords |-> "undefined", hasTalkRatio |-> FALSE,
   agent |-> Undefined, customer |-> Undefined]

\* An object: avgTalkRatio is { agent: a, customer: u } when h, missing
\* otherwise.
RawObject(p, c, t, s, k, h, a, u) ==
  [isNull |-> FALSE, performanceScore |-> p, conversionRate |-> c,
   totalCalls |-> t, avgSentiment |-> s, topKeywords |-> k,
   hasTalkRatio |-> h, agent |-> a, customer |-> u]

RawMetricsValues ==
  LET withRatio ==
        {RawObject(p, c, t, s, k, TRUE, a, u) :
           p \in RawScores, c \in RawRates, t \in RawTotals,
           s \in RawSentiments, k \in RawKeywords,
           a \in RawAgents, u \in RawCustomers}
      withoutRatio ==
        {RawObject(p, c, t, s, k, FALSE, Undefined, Undefined) :
           p \in RawScores, c \in RawRates, t \in RawTotals,
           s \in RawSentiments, k \in RawKeywords}
  IN  ({NullMetrics} \cup withRatio) \cup withoutRatio

NoStable ==
  [threw |-> FALSE, performanceScore |-> Undefined, conversionRate |-> Undefined,
   totalCalls |-> Undefined, avgSentiment |-> Undefined,
   topKeywords |-> "undefined", agent |-> Undefined, customer |-> Undefined]

\* x !== undefined ? Math.round(x) : d
RoundedOr(x, d) == IF x # Undefined THEN MathRound(x) ELSE d

\* customer: metrics?.avgTalkRatio?.customer !== undefined ?
\*   Math.round(metrics.avgTalkRatio.customer) : default (lines 639-640)
CustomerRatio100(m) == RoundedOr(m.customer, DEFAULT_TEAM_METRICS.customer)

\* stableMetrics of the hook with the 100 ms delay (lines 621-648)
StableMetrics100(m) ==
  [threw |-> FALSE,
   performanceScore |-> RoundedOr(m.performanceScore, DEFAULT_TEAM_METRICS.performanceScore),
   conversionRate |-> RoundedOr(m.conversionRate, DEFAULT_TEAM_METRICS.conversionRate),
   totalCalls |-> RoundedOr(m.totalCalls, DEFAULT_TEAM_METRICS.totalCalls),
   agent |-> RoundedOr(m.agent, DEFAULT_TEAM_METRICS.agent),
   customer |-> CustomerRatio100(m),
   topKeywords |-> IF m.topKeywords = "some" THEN "some"
                   ELSE DEFAULT_TEAM_METRICS.topKeywords,
   avgSentiment |-> IF m.avgSentiment # Undefined THEN m.avgSentiment
                    ELSE DEFAULT_TEAM_METRICS.avgSentiment]

\* customer: 100 - Math.round(metrics.avgTalkRatio.agent) (line 778)
CustomerRatio400(m) == HundredMinus(MathRound(m.agent))

\* stableMetrics of the hook with the 400 ms delay (lines 756-781);
\* metrics.avgTalkRatio.agent throws when avgTalkRatio is missing.
StableMetrics400(m) ==
  IF m.isNull
    THEN [threw |-> FALSE, performanceScore |-> Num(0), totalCalls |-> Num(0),
          conversionRate |-> Num(0), avgSentiment |-> Num(0),
          topKeywords |-> "empty", agent |-> Num(5000), customer |-> Num(5000)]
  ELSE IF ~m.hasTalkRatio
    THEN [NoStable EXCEPT !.threw = TRUE]
  ELSE [threw |-> FALSE,
        performanceScore |-> MathRound(m.performanceScore),
        conversionRate |-> RoundToTenth(m.conversionRate),
        totalCalls |-> m.totalCalls,
        avgSentiment |-> m.avgSentiment,
        topKeywords |-> m.topKeywords,
        agent |-> MathRound(m.agent),
        customer |-> CustomerRatio400(m)]

InitStable ==
  /\ hookVersion = "none"
  /\ rawMetrics = NullMetrics
  /\ stableMetrics = NoStable

\* The hook with the 100 ms delay renders with raw metrics m.
Stabilize100(m) ==
  /\ UNCHANGED notStableVars
  /\ hookVersion = "none"
  /\ hookVersion' = "v100"
  /\ rawMetrics' = m
  /\ stableMetrics' = StableMetrics100(m)

\* The hook with the 400 ms delay renders with raw metrics m.
Stabilize400(m) ==
  /\ UNCHANGED notStableVars
  /\ hookVersion = "none"
  /\ hookVersion' = "v400"
  /\ rawMetrics' = m
  /\ stableMetrics' = StableMetrics400(m)

\* The component using the hook is unmounted; the memoized value is dropped.
Unrender ==
  /\ UNCHANGED notStableVars
  /\ hookVersion # "none"
  /\ hookVersion' = "none"
  /\ rawMetrics' = NullMetrics
  /\ stableMetrics' = NoStable

NextStable ==
  \/ \E m \in RawMetricsValues : Stabilize100(m)
  \/ \E m \in RawMetricsValues : Stabilize400(m)
  \/ Unrender


(***************************************************************************)
(* Real-time metrics provider:                                             *)
(* src/src/components/metrics/RealTimeMetricsProvider.tsx 32-201           *)
(***************************************************************************)
\* fetchMetrics invocations that can be pending together.
Fetches == {"f1", "f2"}

\* The latest call_metrics_summary rows a fetch can bring back.
SummaryRows == {"row-a", "row-b"}

\* How the query of a fetch ends: a store error, one row, no row, or an
\* exception.
FetchOutcomes ==
  {[type |-> t, row |-> "none"] : t \in {"error", "empty", "exception"}} \cup
  {[type |-> "row", row |-> r] : r \in SummaryRows}

\* setMetrics(prev => ({ ...prev, isLoading: true, lastError: null }))
LoadingStarted(prev) == [prev EXCEPT !.isLoading = TRUE, !.lastError = "null"]

\* The value fetchMetrics gives setMetrics once its query ended with o
\* (lines 51-119).
FetchedMetrics(prev, o) ==
  IF o.type = "row"
    THEN [isLoading |-> FALSE, isUsingDemoData |-> FALSE, lastError |-> "null",
          data |-> o.row]
    ELSE [prev EXCEPT !.isLoading = FALSE, !.isUsingDemoData = TRUE,
                      !.lastError = o.type]

\* Before the provider's first render it has no metrics state.
NoMetrics ==
  [isLoading |-> FALSE, isUsingDemoData |-> FALSE, lastError |-> "null",
   data |-> "none"]

\* useState(initialMetricsData): initialMetricsData comes from
\* '@/types/metrics'; its isUsingDemoData flag is left open as demo, and
\* its isLoading flag is overwritten by the first fetch at once.
InitialMetricsData(demo) ==
  [isLoading |-> FALSE, isUsingDemoData |-> demo, lastError |-> "null",
   data |-> "initial"]

InitMetrics ==
  /\ phase = "init"
  /\ subscribed = FALSE
  /\ metrics = NoMetrics
  /\ fetchPc = [f \in Fetches |-> "idle"]
  /\ fetchOrigin = [f \in Fetches |-> "none"]
  /\ toasted = {}
  /\ perfPc = "init"
  /\ perfMetrics = "zeros"
  /\ perfLoading = TRUE
  /\ repairPc = "idle"
  /\ repairToasts = 0

\* fetchMetrics is entered (lines 40-49): loading is flagged and the query
\* sent.
StartFetch(f, origin, prev) ==
  /\ fetchPc[f] = "idle"
  /\ fetchPc' = [fetchPc EXCEPT ![f] = "pending"]
  /\ fetchOrigin' = [fetchOrigin EXCEPT ![f] = origin]
  /\ metrics' = LoadingStarted(prev)
  /\ toasted' = {}

\* The provider renders for the first time and the effect of lines 171-190
\* runs: the initial fetch and the subscription.
Mount(f, demo) ==
  /\ UNCHANGED <<notMetricsVars, perfVars, repairVars>>
  /\ phase = "init"
  /\ phase' = "mounted"
  /\ subscribed' = TRUE
  /\ StartFetch(f, "mount", InitialMetricsData(demo))

\* Mutant: the callbacks still run after the channel was unsubscribed.
ChangeNotification_AfterTeardown(f, table) ==
  /\ UNCHANGED <<notMetricsVars, perfVars, repairVars>>
  /\ phase # "init"
  /\ StartFetch(f, "notify", metrics)
  /\ UNCHANGED <<phase, subscribed>>

\* A postgres_changes notification for one of the two tables arrives.
ChangeNotification(f, table) ==
  /\ UNCHANGED <<notMetricsVars, perfVars, repairVars>>
  /\ subscribed
  /\ StartFetch(f, "notify", metrics)
  /\ UNCHANGED <<phase, subscribed>>

\* refreshMetrics() is called by a consumer (lines 125-126).
RefreshMetrics(f) ==
  /\ UNCHANGED <<notMetricsVars, perfVars, repairVars>>
  /\ phase = "mounted"
  /\ StartFetch(f, "refresh", metrics)
  /\ UNCHANGED <<phase, subscribed>>

\* Mutant: every fetch is acknowledged.
CompletionToasts_Always(origin) == {"Metrics Refreshed"}

\* The toasts shown once a fetchMetrics started by origin has returned:
\* refreshMetrics shows its toast after the await (lines 125-130), the other
\* callers show none.
CompletionToasts(origin) ==
  IF origin = "refresh" THEN {"Metrics Refreshed"} ELSE {}

\* The query of fetch f ends with o: fetchMetrics calls setMetrics and
\* returns; refreshMetrics then shows its toast (lines 51-131).
FetchCompletes(f, o) ==
  /\ UNCHANGED <<notMetricsVars, perfVars, repairToasts>>
  /\ fetchPc[f] = "pending"
  /\ repairPc' = IF fetchOrigin[f] = "repair" THEN "idle" ELSE repairPc
  /\ metrics' = FetchedMetrics(metrics, o)
  /\ toasted' = CompletionToasts(fetchOrigin[f])
  /\ fetchPc' = [fetchPc EXCEPT ![f] = "idle"]
  /\ fetchOrigin' = [fetchOrigin EXCEPT ![f] = "none"]
  /\ UNCHANGED <<phase, subscribed>>

\* What fixCallSentiments() can come to: a result with success, a result
\* without, or an exception.
RepairResults == {"success", "failure", "throws"}

\* The toast fixNeutralSentiments shows for result r (lines 142-164).
RepairToast(r) ==
  IF r = "success" THEN "Sentiment Update Complete"
  ELSE IF r = "failure" THEN "Update Failed"
  ELSE "Error"

\* fixNeutralSentiments() is called by a consumer: setIsUpdating(true) and
\* fixCallSentiments() is awaited (lines 136-140).
FixNeutralSentiments ==
  /\ UNCHANGED <<notMetricsVars, perfVars>>
  /\ phase = "mounted"
  /\ repairPc = "idle"
  /\ repairPc' = "fixing"
  /\ repairToasts' = 0
  /\ toasted' = {}
  /\ UNCHANGED <<phase, subscribed, metrics, fetchPc, fetchOrigin>>

\* fixCallSentiments() comes to r (lines 140-166): the toast is shown; after
\* a success fetchMetrics is then entered and awaited, otherwise the finally
\* block clears isUpdating.
FixCallSentimentsResolves(f, r) ==
  /\ UNCHANGED <<notMetricsVars, perfVars>>
  /\ repairPc = "fixing"
  /\ toasted' = {RepairToast(r)}
  /\ repairToasts' = repairToasts + 1
  /\ IF r = "success"
       THEN /\ fetchPc[f] = "idle"
            /\ fetchPc' = [fetchPc EXCEPT ![f] = "pending"]
            /\ fetchOrigin' = [fetchOrigin EXCEPT ![f] = "repair"]
            /\ metrics' = LoadingStarted(metrics)
            /\ repairPc' = "refetch"
       ELSE /\ repairPc' = "idle"
            /\ UNCHANGED <<metrics, fetchPc, fetchOrigin>>
  /\ UNCHANGED <<phase, subscribed>>

\* The effect's cleanup (lines 192-194): subscription.unsubscribe().
Unmount ==
  /\ UNCHANGED <<notMetricsVars, perfVars, repairVars>>
  /\ phase = "mounted"
  /\ phase' = "unmounted"
  /\ subscribed' = FALSE
  /\ toasted' = {}
  /\ UNCHANGED <<metrics, fetchPc, fetchOrigin>>

\* PerformanceMetrics: what its fetchMetrics gives setMetrics once the query
\* ended with o (part_001 lines 30-57); an exception or a missing row
\* leaves the state as it was.
PerfFetchedMetrics(prev, o) ==
  IF o.type = "error" THEN "demo"
  ELSE IF o.type = "row" THEN o.row
  ELSE prev

\* PerformanceMetrics mounts: its effect calls fetchMetrics once
\* (part_001 lines 20-63).
PerfMount ==
  /\ UNCHANGED <<notMetricsVars, repairVars>>
  /\ perfPc = "init"
  /\ perfPc' = "pending"
  /\ UNCHANGED <<phase, subscribed, metrics, fetchPc, fetchOrigin, toasted,
                 perfMetrics, perfLoading>>

\* The query of PerformanceMetrics ends with o; the finally block clears
\* isLoading (part_001 lines 30-59).
PerfFetchCompletes(o) ==
  /\ UNCHANGED <<notMetricsVars, repairVars>>
  /\ perfPc = "pending"
  /\ perfPc' = "done"
  /\ perfMetrics' = PerfFetchedMetrics(perfMetrics, o)
  /\ perfLoading' = FALSE
  /\ UNCHANGED <<phase, subscribed, metrics, fetchPc, fetchOrigin, toasted>>

NextMetrics ==
  \/ \E f \in Fetches, demo \in BOOLEAN : Mount(f, demo)
  \/ \E f \in Fetches, t \in {"call_metrics_summary", "call_transcripts"} :
       ChangeNotification(f, t)
  \/ \E f \in Fetches : RefreshMetrics(f)
  \/ \E f \in Fetches, o \in FetchOutcomes : FetchCompletes(f, o)
  \/ Unmount
  \/ FixNeutralSentiments
  \/ \E f \in Fetches, r \in RepairResults : FixCallSentimentsResolves(f, r)
  \/ PerfMount
  \/ \E o \in FetchOutcomes : PerfFetchCompletes(o)


(***************************************************************************)
(* Keyword trend aggregator:                                               *)
(* src/src/services/events/EventsService.ts 473-527                        *)
(***************************************************************************)
\* updateKeywordTrends invocations started in one run of the model.
MaxTrendUpdates == 3

\* Invocations that can be under way together.
TrendUpdates == {"u1", "u2"}

\* keywords.slice(0, 5)
TopKeywords == 5

\* What extractKeywords can return: one keyword, or more than five.
KeywordLists == {<<"k1">>, <<"k1", "k2", "k3", "k4", "k5", "k6">>}

\* The lists followed for an update started after n others: the first
\* transcript has either list, the later ones the one keyword all share.
KeywordListsAt(n) == IF n = 0 THEN KeywordLists ELSE {<<"k1">>}

\* What analyzeSentiment can return.
SentimentLabels == {"positive", "mixed"}

\* The category of lines 478-481.
TrendCategory(sentiment) ==
  IF sentiment \in {"positive", "neutral", "negative"} THEN sentiment
  ELSE "general"

TrendKeys ==
  {"k1", "k2", "k3", "k4", "k5", "k6"} \X
  {"positive", "neutral", "negative", "general"}

\* keywords.slice(0, 5)
Slice(kws) == SubSeq(kws, 1, Min(Len(kws), TopKeywords))

NoTrendData == [found |-> FALSE, count |-> 0]

\* Mutant: the update adds two to the count it read.
IncrementedCount_ByTwo(count) == (IF count = 0 THEN 1 ELSE count) + 2

\* count: (data.count || 1) + 1
IncrementedCount(count) == (IF count = 0 THEN 1 ELSE count) + 1

\* The count the write of line 513-521 stores: count: 1.
InsertedCount == 1

InitTrends ==
  /\ keyword_trends = [k \in TrendKeys |-> 0]
  /\ ktApplied = [k \in TrendKeys |-> 0]
  /\ ktDecreased = FALSE
  /\ ktOverlapped = FALSE
  /\ ktPc = [u \in TrendUpdates |-> "idle"]
  /\ ktKeywords = [u \in TrendUpdates |-> <<>>]
  /\ ktCategory = [u \in TrendUpdates |-> "general"]
  /\ ktData = [u \in TrendUpdates |-> NoTrendData]
  /\ ktResult = [u \in TrendUpdates |-> "none"]
  /\ ktStarted = 0

\* The key of the row update u is working on.
TrendKey(u) == <<Head(ktKeywords[u]), ktCategory[u]>>

\* The loop of update u goes on with the keywords rest: the next select is
\* issued, or the function returns.
NextKeyword(u, rest) ==
  /\ ktKeywords' = [ktKeywords EXCEPT ![u] = rest]
  /\ ktData' = [ktData EXCEPT ![u] = NoTrendData]
  /\ IF rest = <<>>
       THEN /\ ktPc' = [ktPc EXCEPT ![u] = "done"]
            /\ ktResult' = [ktResult EXCEPT ![u] = "returned"]
       ELSE /\ ktPc' = [ktPc EXCEPT ![u] = "select"]
            /\ UNCHANGED ktResult

\* updateKeywordTrends(result) is called; extractKeywords returns kws and
\* analyzeSentiment returns sentiment (lines 474-484).
KeywordUpdateStart(u, kws, sentiment) ==
  /\ UNCHANGED notTrendVars
  /\ ktPc[u] = "idle"
  /\ ktStarted < MaxTrendUpdates
  /\ ktStarted' = ktStarted + 1
  /\ ktCategory' = [ktCategory EXCEPT ![u] = TrendCategory(sentiment)]
  /\ NextKeyword(u, Slice(kws))
  /\ ktOverlapped' =
       (ktOverlapped \/ \E v \in TrendUpdates \ {u} : ktPc[v] \in {"select", "write"})
  /\ UNCHANGED <<keyword_trends, ktApplied, ktDecreased>>

\* updateKeywordTrends(result) is called and extractKeywords or
\* analyzeSentiment throws (lines 474-475, outside every try block).
KeywordAnalysisThrows(u) ==
  /\ UNCHANGED notTrendVars
  /\ ktPc[u] = "idle"
  /\ ktStarted < MaxTrendUpdates
  /\ ktStarted' = ktStarted + 1
  /\ ktPc' = [ktPc EXCEPT ![u] = "done"]
  /\ ktResult' = [ktResult EXCEPT ![u] = "threw"]
  /\ UNCHANGED <<keyword_trends, ktApplied, ktDecreased, ktOverlapped, ktKeywords,
                 ktCategory, ktData>>

\* The select of lines 487-492 comes back with o: the row or none ("data"),
\* an error, or an exception, which the catch of line 523 takes.
TrendSelectResponds(u, o) ==
  /\ UNCHANGED notTrendVars
  /\ ktPc[u] = "select"
  /\ IF o = "data"
       THEN /\ ktData' = [ktData EXCEPT ![u] =
                 [found |-> keyword_trends[TrendKey(u)] > 0,
                  count |-> keyword_trends[TrendKey(u)]]]
            /\ ktPc' = [ktPc EXCEPT ![u] = "write"]
            /\ UNCHANGED <<ktKeywords, ktResult>>
       ELSE NextKeyword(u, Tail(ktKeywords[u]))
  /\ UNCHANGED <<keyword_trends, ktApplied, ktDecreased, ktOverlapped, ktCategory,
                 ktStarted>>

\* The count the write of update u stores: the update of lines 502-508 when
\* its select found the row, the upsert of lines 511-520 otherwise.
WrittenCount(u) ==
  IF ktData[u].found THEN IncrementedCount(ktData[u].count) ELSE InsertedCount

\* The write of update u comes back with o: applied ("ok"), an error, which
\* is not looked at, or an exception, which the catch of line 523 takes.
TrendWriteResponds(u, o) ==
  /\ UNCHANGED notTrendVars
  /\ ktPc[u] = "write"
  /\ IF o = "ok"
       THEN /\ keyword_trends' =
                 [keyword_trends EXCEPT ![TrendKey(u)] = WrittenCount(u)]
            /\ ktApplied' = [ktApplied EXCEPT ![TrendKey(u)] = @ + 1]
            /\ ktDecreased' =
                 (ktDecreased \/ WrittenCount(u) < keyword_trends[TrendKey(u)])
       ELSE UNCHANGED <<keyword_trends, ktApplied, ktDecreased>>
  /\ NextKeyword(u, Tail(ktKeywords[u]))
  /\ UNCHANGED <<ktCategory, ktStarted, ktOverlapped>>

\* The caller has seen update u end.
KeywordUpdateReturn(u) ==
  /\ UNCHANGED notTrendVars
  /\ ktPc[u] = "done"
  /\ ktPc' = [ktPc EXCEPT ![u] = "idle"]
  /\ ktResult' = [ktResult EXCEPT ![u] = "none"]
  /\ ktCategory' = [ktCategory EXCEPT ![u] = "general"]
  /\ UNCHANGED <<keyword_trends, ktApplied, ktDecreased, ktOverlapped, ktKeywords, ktData,
                 ktStarted>>

NextTrends ==
  \/ \E u \in TrendUpdates, kws \in KeywordListsAt(ktStarted),
          s \in SentimentLabels :
       KeywordUpdateStart(u, kws, s)
  \/ \E u \in TrendUpdates : KeywordAnalysisThrows(u)
  \/ \E u \in TrendUpdates, o \in {"data", "error", "throws"} :
       TrendSelectResponds(u, o)
  \/ \E u \in TrendUpdates, o \in {"ok", "error", "throws"} :
       TrendWriteResponds(u, o)
  \/ \E u \in TrendUpdates : KeywordUpdateReturn(u)


(***************************************************************************)
(* Sentiment trend aggregator:                                             *)
(* src/src/services/events/EventsService.ts 530-557                        *)
(***************************************************************************)
\* updateSentimentTrends invocations started in one run of the model.
MaxSentimentUpdates == 3

\* The invocation followed; an insert shares nothing with another one.
SentimentUpdates == {"s1"}

\* What analyzeSentiment can return: the three labels, or anything else.
TrendLabels == {"positive", "neutral", "negative", "mixed"}

\* The userId argument: null, or a user.
TrendUsers == {"null", "user"}

\* Mutant: negative gets the confidence of neutral.
Confidence_NegativeAsNeutral(label) == IF label = "positive" THEN 80 ELSE 60

\* confidence: sentiment === 'positive' ? 0.8 : sentiment === 'negative' ?
\* 0.7 : 0.6, in hundredths.
Confidence(label) ==
  IF label = "positive" THEN 80 ELSE IF label = "negative" THEN 70 ELSE 60

\* trendData (lines 537-542)
TrendData(label, user) ==
  [sentiment_label |-> label, confidence |-> Confidence(label),
   user_id |-> user]

NoTrendRow == [sentiment_label |-> "none", confidence |-> 0, user_id |-> "null"]

InitSentiment ==
  /\ sentiment_trends = {}
  /\ stPc = [v \in SentimentUpdates |-> "idle"]
  /\ stData = [v \in SentimentUpdates |-> NoTrendRow]
  /\ stResult = [v \in SentimentUpdates |-> "none"]
  /\ stStarted = 0

\* updateSentimentTrends(result, userId) is called; analyzeSentiment returns
\* label, trendData is built and the insert issued (lines 534-547).
SentimentUpdateStart(v, label, user) ==
  /\ UNCHANGED notSentimentVars
  /\ stPc[v] = "idle"
  /\ stStarted < MaxSentimentUpdates
  /\ stStarted' = stStarted + 1
  /\ stData' = [stData EXCEPT ![v] = TrendData(label, user)]
  /\ stPc' = [stPc EXCEPT ![v] = "insert"]
  /\ UNCHANGED <<sentiment_trends, stResult>>

\* updateSentimentTrends(result, userId) is called and analyzeSentiment
\* throws (line 534, before the try block).
SentimentAnalysisThrows(v) ==
  /\ UNCHANGED notSentimentVars
  /\ stPc[v] = "idle"
  /\ stStarted < MaxSentimentUpdates
  /\ stStarted' = stStarted + 1
  /\ stPc' = [stPc EXCEPT ![v] = "done"]
  /\ stResult' = [stResult EXCEPT ![v] = "threw"]
  /\ UNCHANGED <<sentiment_trends, stData>>

\* The insert comes back with o: applied ("ok"), an error, which is
\* reported, or an exception, which the catch of line 553 takes.
SentimentInsertResponds(v, o) ==
  /\ UNCHANGED notSentimentVars
  /\ stPc[v] = "insert"
  /\ sentiment_trends' =
       IF o = "ok"
         THEN sentiment_trends \cup
                {[n |-> Cardinality(sentiment_trends) + 1, row |-> stData[v]]}
         ELSE sentiment_trends
  /\ stPc' = [stPc EXCEPT ![v] = "done"]
  /\ stResult' = [stResult EXCEPT ![v] = "returned"]
  /\ UNCHANGED <<stData, stStarted>>

\* The caller has seen update v end.
SentimentUpdateReturn(v) ==
  /\ UNCHANGED notSentimentVars
  /\ stPc[v] = "done"
  /\ stPc' = [stPc EXCEPT ![v] = "idle"]
  /\ stData' = [stData EXCEPT ![v] = NoTrendRow]
  /\ stResult' = [stResult EXCEPT ![v] = "none"]
  /\ UNCHANGED <<sentiment_trends, stStarted>>

NextSentiment ==
  \/ \E v \in SentimentUpdates, label \in TrendLabels, user \in TrendUsers :
       SentimentUpdateStart(v, label, user)
  \/ \E v \in SentimentUpdates : SentimentAnalysisThrows(v)
  \/ \E v \in SentimentUpdates, o \in {"ok", "error", "throws"} :
       SentimentInsertResponds(v, o)
  \/ \E v \in SentimentUpdates : SentimentUpdateReturn(v)


(***************************************************************************)
(* The sentiment percentages of a fetched snapshot:                        *)
(* src/src/components/metrics/RealTimeMetricsProvider.tsx 62-101           *)
(* A percentage is kept as the exact fraction <<numerator, denominator>>.  *)
(***************************************************************************)
\* The values a sentiment count column of the row can hold: missing, or a
\* non-negative number.
SentimentCounts == {Undefined, Num(0), Num(1), Num(2), Num(7)}

\* The positive, negative and neutral counts of a row.
CountRows ==
  [positive : SentimentCounts, negative : SentimentCounts,
   neutral : SentimentCounts]

\* x || 0
OrZero(x) == IF IsNum(x) THEN x[2] ELSE 0

\* totalSentiment (lines 66-69)
TotalSentiment(row) ==
  OrZero(row.positive) + OrZero(row.negative) + OrZero(row.neutral)

\* Mutant: with no count at all, a percentage is a third of the whole.
SentimentPercent_ThirdWhenEmpty(count, total) ==
  IF total > 0 THEN <<OrZero(count) * 100, total>> ELSE <<100, 3>>

\* totalSentiment > 0 ? ((count || 0) / totalSentiment) * 100 : 0
SentimentPercent(count, total) ==
  IF total > 0 THEN <<OrZero(count) * 100, total>> ELSE <<0, 1>>

\* positiveSentiment, negativeSentiment and neutralSentiment of the snapshot
\* (lines 72-82 and 87-89).
SnapshotPercents(row) ==
  [positiveSentiment |-> SentimentPercent(row.positive, TotalSentiment(row)),
   negativeSentiment |-> SentimentPercent(row.negative, TotalSentiment(row)),
   neutralSentiment |-> SentimentPercent(row.neutral, TotalSentiment(row))]

\* No row has been fetched yet.
NoCounts == [positive |-> NaN, negative |-> NaN, neutral |-> NaN]

NoPercents ==
  [positiveSentiment |-> <<0, 1>>, negativeSentiment |-> <<0, 1>>,
   neutralSentiment |-> <<0, 1>>]

InitSnapshot ==
  /\ summaryCounts = NoCounts
  /\ snapshotPercents = NoPercents

\* A fetch returns a row with the counts row and the snapshot is set from
\* it (lines 62-101).
SnapshotFromRow(row) ==
  /\ UNCHANGED notSnapshotVars
  /\ summaryCounts' = row
  /\ snapshotPercents' = SnapshotPercents(row)

NextSnapshot == \E row \in CountRows : SnapshotFromRow(row)


(***************************************************************************)
(* Debounced loading flag: useStableLoadingState(isLoading, delay).  The   *)
(* hook is imported from @/hooks/useStableLoadingState (line 596); time    *)
(* advances in ticks of TickMs milliseconds.                               *)
(***************************************************************************)
MaxLoadingTicks == 10

\* The length of one tick in ms.
TickMs == 50

\* The delays the two useRealTimeTeamMetrics pass (lines 618 and 753).
LoadingDelays == {100, 400}

NoTimer == -1

\* Mutant: the timer is due at once.
DebounceTicks_Immediate(delay) == 0

\* Ticks after which a timer of delay ms is due.
DebounceTicks(delay) == (delay + TickMs - 1) \div TickMs

InitLoading ==
  /\ loadingDelay = 0
  /\ isLoading = FALSE
  /\ stableLoading = FALSE
  /\ loadingTicks = 0
  /\ debounceTimer = NoTimer
  /\ lastFetchTicks = -1
  /\ lastSurfaced = FALSE

\* The hook renders for the first time with the given delay while the
\* underlying signal is l; a signal that is true starts the timer.
LoadingMount(delay, l) ==
  /\ UNCHANGED notLoadingVars
  /\ loadingDelay = 0
  /\ loadingDelay' = delay
  /\ isLoading' = l
  /\ stableLoading' = FALSE
  /\ loadingTicks' = 0
  /\ debounceTimer' = IF l THEN DebounceTicks(delay) ELSE NoTimer
  /\ UNCHANGED <<lastFetchTicks, lastSurfaced>>

\* The underlying signal turns true: a fetch starts and the timer is set.
LoadingBegins ==
  /\ UNCHANGED notLoadingVars
  /\ loadingDelay # 0
  /\ ~isLoading
  /\ isLoading' = TRUE
  /\ loadingTicks' = 0
  /\ debounceTimer' = DebounceTicks(loadingDelay)
  /\ UNCHANGED <<loadingDelay, stableLoading, lastFetchTicks, lastSurfaced>>

\* One tick of time passes during a fetch.
LoadingTick ==
  /\ UNCHANGED notLoadingVars
  /\ isLoading
  /\ loadingTicks < MaxLoadingTicks
  /\ loadingTicks' = loadingTicks + 1
  /\ debounceTimer' = IF debounceTimer > 0 THEN debounceTimer - 1
                      ELSE debounceTimer
  /\ UNCHANGED <<loadingDelay, isLoading, stableLoading, lastFetchTicks,
                 lastSurfaced>>

\* The timer is due and its callback surfaces the flag.
DebounceTimerFires ==
  /\ UNCHANGED notLoadingVars
  /\ debounceTimer = 0
  /\ debounceTimer' = NoTimer
  /\ stableLoading' = TRUE
  /\ UNCHANGED <<loadingDelay, isLoading, loadingTicks, lastFetchTicks,
                 lastSurfaced>>

\* The fetch completes: the flag is cleared at once and a pending timer is
\* cancelled.
LoadingEnds ==
  /\ UNCHANGED notLoadingVars
  /\ isLoading
  /\ isLoading' = FALSE
  /\ stableLoading' = FALSE
  /\ debounceTimer' = NoTimer
  /\ lastFetchTicks' = loadingTicks
  /\ lastSurfaced' = stableLoading
  /\ loadingTicks' = 0
  /\ UNCHANGED loadingDelay

\* The component is unmounted; pending timers are cancelled.
LoadingUnmount ==
  /\ UNCHANGED notLoadingVars
  /\ loadingDelay # 0
  /\ loadingDelay' = 0
  /\ isLoading' = FALSE
  /\ stableLoading' = FALSE
  /\ loadingTicks' = 0
  /\ debounceTimer' = NoTimer
  /\ lastFetchTicks' = -1
  /\ lastSurfaced' = FALSE

NextLoading ==
  \/ \E delay \in LoadingDelays, l \in BOOLEAN : LoadingMount(delay, l)
  \/ LoadingBegins
  \/ LoadingTick
  \/ DebounceTimerFires
  \/ LoadingEnds
  \/ LoadingUnmount

(***************************************************************************)
(* calculateAudioDuration (lines 560-580)                                  *)
(***************************************************************************)
MaxSizeSteps == 210

\* File sizes in bytes: multiples of 1600 up to a little over 320,000.
AudioSizes == {k * 1600 : k \in 0..MaxSizeSteps}

\* audio.duration values in hundredths of a second.
MetadataDurations == {Num(49), Num(150), Num(1000)}

\* ~32kB per second (line 576)
BytesPerSecond == 32000

DefaultSeconds == 60

\* Mutant: the quotient is truncated.
EstimatedSeconds_Truncated(size) == size \div BytesPerSecond

\* Math.round(audioFile.size / 32000) (line 576)
EstimatedSeconds(size) == (2 * size + BytesPerSecond) \div (2 * BytesPerSecond)

\* estimatedSeconds > 0 ? estimatedSeconds : 60 (line 577)
FallbackDuration(size) ==
  IF EstimatedSeconds(size) > 0 THEN EstimatedSeconds(size) ELSE DefaultSeconds

InitDuration ==
  /\ audioSize = 0
  /\ audioEvent = "none"
  /\ audioSeconds = 0

\* 'loadedmetadata' fires: resolve(Math.round(audio.duration)) (lines 565-569)
DurationFromMetadata(size, d) ==
  /\ UNCHANGED notDurationVars
  /\ audioSize' = size
  /\ audioEvent' = "loadedmetadata"
  /\ audioSeconds' = MathRound(d)[2] \div 100

\* 'error' fires: the duration is estimated from the size (lines 572-578)
DurationFromSize(size) ==
  /\ UNCHANGED notDurationVars
  /\ audioSize' = size
  /\ audioEvent' = "error"
  /\ audioSeconds' = FallbackDuration(size)

NextDuration ==
  \/ \E size \in AudioSizes, d \in MetadataDurations :
       DurationFromMetadata(size, d)
  \/ \E size \in AudioSizes : DurationFromSize(size)

(***************************************************************************)
(* processMetricsData: src/src/utils/metricsProcessor.ts 14-116            *)
(***************************************************************************)
\* rawData: null, an object without keys, or a record.
RawRecords == {"null", "empty", "row-a", "row-b"}

\* What formatMetricsForDisplay (from './metricsUtils') can do for its
\* argument: return the formatted metrics, return null, or throw.
FormatOutcomes == {"formatted", "null", "throws"}

\* The arguments of a call; formatRaw and formatDemo are what
\* formatMetricsForDisplay does for rawData and for the demo record.
ProcessInputs ==
  [rawData : RawRecords, isLoading : BOOLEAN, hasError : BOOLEAN,
   formatRaw : FormatOutcomes, formatDemo : FormatOutcomes]

\* The returned value as long as nothing was assigned (lines 24-26):
\* metricsData is { ...initialMetricsData, isLoading }.
InitialResult(loading) ==
  [data |-> "initial", isLoading |-> loading, formatted |-> "null",
   isUsingDemoData |-> FALSE, lastError |-> "initial", threw |-> FALSE]

\* else if (hasError || !rawData) (line 60)
TakesDemoBranch(in) == in.hasError \/ in.rawData = "null"

\* The demo data of lines 63-84 or, with caught, of the catch block (lines
\* 88-112), where formatMetricsForDisplay(demoData) is outside every try.
DemoResult(in, caught) ==
  IF in.formatDemo = "throws"
    THEN [InitialResult(FALSE) EXCEPT !.threw = TRUE]
  ELSE IF in.formatDemo = "null"
    THEN [InitialResult(FALSE) EXCEPT !.isUsingDemoData = TRUE]
  ELSE [data |-> "demo", isLoading |-> FALSE, formatted |-> "demo",
        isUsingDemoData |-> TRUE, threw |-> FALSE,
        lastError |-> IF caught THEN "exception"
                      ELSE IF in.hasError THEN "Error fetching metrics"
                      ELSE "No metrics data available"]

\* processMetricsData(rawData, isLoading, hasError) (lines 14-116)
ProcessMetricsData(in) ==
  IF in.isLoading THEN InitialResult(TRUE)
  ELSE IF in.rawData \notin {"null", "empty"}
    THEN IF in.formatRaw = "throws" THEN DemoResult(in, TRUE)
         ELSE IF in.formatRaw = "null" THEN InitialResult(FALSE)
         ELSE [data |-> in.rawData, isLoading |-> FALSE,
               formatted |-> in.rawData, isUsingDemoData |-> FALSE,
               lastError |-> "null", threw |-> FALSE]
  ELSE IF TakesDemoBranch(in)
    THEN IF in.formatDemo = "throws" THEN DemoResult(in, TRUE)
         ELSE DemoResult(in, FALSE)
  ELSE InitialResult(FALSE)

InitProcess ==
  /\ processInput = [rawData |-> "null", isLoading |-> TRUE, hasError |-> FALSE,
                     formatRaw |-> "formatted", formatDemo |-> "formatted"]
  /\ processResult = InitialResult(TRUE)

\* A component calls processMetricsData with the arguments in.
ProcessCall(in) ==
  /\ UNCHANGED notProcessVars
  /\ processInput' = in
  /\ processResult' = ProcessMetricsData(in)

NextProcess == \E in \in ProcessInputs : ProcessCall(in)

Init ==
  /\ InitSnapshot
  /\ InitClient /\ InitIngest /\ InitStable /\ InitMetrics /\ InitTrends
  /\ InitSentiment
  /\ InitLoading /\ InitDuration /\ InitProcess

SpecClient == Init /\ [][NextClient]_vars

SpecIngest == Init /\ [][NextIngest]_vars

SpecStable == Init /\ [][NextStable]_vars

SpecMetrics == Init /\ [][NextMetrics]_vars

SpecTrends == Init /\ [][NextTrends]_vars

SpecSentiment == Init /\ [][NextSentiment]_vars

SpecSnapshot == Init /\ [][NextSnapshot]_vars

SpecLoading == Init /\ [][NextLoading]_vars

SpecDuration == Init /\ [][NextDuration]_vars

SpecProcess == Init /\ [][NextProcess]_vars

\* The ingestion with its scheduling: the synchronous steps are taken, and
\* every call to the store, the session and the edge function the ingestion
\* has issued comes back.  Nothing in calculateAudioDuration (lines 560-580)
\* makes the audio element fire 'loadedmetadata' or 'error': there is no
\* timeout, so the step that resolves the duration is not forced.
IngestProgress ==
  \E i \in Ingests :
    \/ Derive(i)
    \/ DeriveThrows(i)
    \/ \E su \in {NoUser, SessionUser} : AuthResolves(i, su)
    \/ \E o \in {"ok", "column", "other", "throws"} : DetailWriteResponds(i, o)
    \/ \E hk \in BOOLEAN, hp \in BOOLEAN : Probe(i, hk, hp)
    \/ \E o \in {"ok", "error", "throws"}, j1 \in Jitters, j2 \in Jitters :
         SummaryUpsertResponds(i, o, j1, j2)
    \/ \E o \in {"ok", "notok", "throws"} : EdgeResponds(i, o)

SpecIngestLive == Init /\ [][NextIngest]_vars /\ WF_vars(IngestProgress)

(***************************************************************************)
(* Claims about the request client                                         *)
(***************************************************************************)
\* C1 (as claimed): once a call has received a response carrying the uuid
\* format error, no further network attempt is made for that call.
C1_UuidErrorNeverRetried ==
  \A c \in PlainCalls : "uuid" \in seen[c] => pc[c] # "fetching"

\* C2 (as claimed): a call that received a 5xx response ends only with a
\* success or after 3 attempts in total.
C2_ServerErrorRetried ==
  \A c \in PlainCalls :
    (pc[c] = "done" /\ "server" \in seen[c]) =>
      (result[c] = "ok" \/ netAttempts[c] = maxRetries)

\* C2 (amended): a 5xx response (without the uuid error text) ends the call
\* on that attempt: the response is handed back to the caller and no
\* further attempt follows.
C2_ServerErrorReturned ==
  \A c \in PlainCalls :
    lastResp[c] = "server" => (pc[c] = "done" /\ result[c] = "response")

C2_Witness ==
  \E c \in PlainCalls :
    lastResp[c] = "server" /\ pc[c] = "done" /\ netAttempts[c] = 1

\* C3 (as claimed): within one failure streak the persistent condition is
\* raised once and the counter does not go beyond the threshold.
C3_RaisedOncePerStreak ==
  raisedInStreak <= 1 /\ connectionAttempts <= MAX_CONNECTION_ATTEMPTS

\* C3 (amended): every call that exhausts its retries is counted, and each
\* one from the 5th of the streak on raises the condition again.
C3_RaisedByEveryFailureFromFifth ==
  raisedInStreak =
    IF connectionAttempts >= MAX_CONNECTION_ATTEMPTS
      THEN connectionAttempts - MAX_CONNECTION_ATTEMPTS + 1
      ELSE 0

C3_Witness ==
  connectionAttempts = MAX_CONNECTION_ATTEMPTS + 1 /\ raisedInStreak = 2

\* C4 (as claimed): a successful response that follows a failed attempt or
\* call resets the counter to 0, sets the flag to connected and emits the
\* connection-restored event.
C4_SuccessAfterFailureRestores ==
  [][\A c \in Calls :
       (pc[c] = "fetching" /\ result'[c] = "ok" /\ sinceFailure) =>
         (/\ connectionAttempts' = 0
          /\ isSupabaseConnected'
          /\ "supabase-connection-restored" \in emitted')]_vars

(***************************************************************************)
(* Claims about the ingestion pipeline                                     *)
(***************************************************************************)
\* C5 (as claimed): after any number of ingestions of the transcription
\* result the detail table holds exactly one record for it, never a second.
C5_ReingestionKeepsOneDetailRecord == Cardinality(call_transcripts) <= 1

\* C5 (amended): the identifier is generated by each ingestion, and it is
\* the replay of one ingestion's detail write under that identifier that
\* creates no duplicate: no identifier has two detail rows, and once the
\* store has applied the write it holds exactly one row for it.
C5_ReplayKeepsOneDetailRecord ==
  /\ \A r1, r2 \in call_transcripts : r1.id = r2.id => r1 = r2
  /\ \A i \in Ingests :
       applied[i] >= 1 =>
         Cardinality(RowsWithId(call_transcripts, transcriptId[i])) = 1

C5_Witness ==
  \E i \in Ingests :
    /\ applied[i] >= 2
    /\ Cardinality(RowsWithId(call_transcripts, transcriptId[i])) = 1

\* C6 (as claimed): an ingestion that reached the detail write has attempted
\* the summary write by the time it returns, whatever the detail outcome.
C6_SummaryAlwaysAttempted ==
  \A i \in Ingests :
    (ipc[i] = "done" /\ writeLog[i] # <<>>) => summaryAttempted[i]

\* C6 (amended): the summary write is attempted exactly when the detail
\* write, first or fallback, succeeded.
C6_SummaryAttemptedIffDetailSucceeded ==
  \A i \in Ingests :
    summaryAttempted[i] <=>
      (writeLog[i] # <<>> /\ writeLog[i][Len(writeLog[i])] = "ok")

C6_Witness ==
  \E i \in Ingests :
    /\ ipc[i] = "done"
    /\ writeLog[i] = <<"column", "other">>
    /\ ~summaryAttempted[i]

C8_TalkRatiosSumTo100 ==
  \A r \in calls :
    /\ r.talk_ratio_agent + r.talk_ratio_customer >= 99
    /\ r.talk_ratio_agent + r.talk_ratio_customer <= 101

(***************************************************************************)
(* Claims about the stabilization layer                                    *)
(***************************************************************************)
\* C9 (as claimed): every stabilized value, from either hook and for any raw
\* input, has agent talk ratio + customer talk ratio = 100 exactly.
C9_StableTalkRatiosSumTo100 ==
  hookVersion # "none" =>
    /\ ~stableMetrics.threw
    /\ IsNum(stableMetrics.agent)
    /\ IsNum(stableMetrics.customer)
    /\ stableMetrics.agent[2] + stableMetrics.customer[2] = 10000

(***************************************************************************)
(* Claims about the metrics provider                                       *)
(***************************************************************************)
\* C10 (as claimed): after teardown no step, in particular no completion of
\* a fetch issued before it, changes the provider's metrics state or shows
\* a toast.
C10_CompletionAfterTeardownIsNoOp ==
  [][phase = "unmounted" => (metrics' = metrics /\ toasted' = {})]_vars

\* C11 (as claimed): whenever a fetch of the provider fails with a store
\* error or an exception, the snapshot afterwards holds the default values,
\* not a row kept from an earlier fetch, and loading is cleared; the one
\* fetch of PerformanceMetrics that fails leaves its default or demo values.
C11_FailureDegradesToDefaults ==
  [][/\ \A f \in Fetches :
          (/\ fetchPc[f] = "pending"
           /\ fetchPc'[f] = "idle"
           /\ metrics'.lastError \in {"error", "exception"}) =>
            (metrics'.data = "initial" /\ ~metrics'.isLoading)
     /\ (perfPc = "pending" /\ perfPc' = "done" /\ perfMetrics' \notin SummaryRows) =>
          (perfMetrics' \in {"zeros", "demo"} /\ ~perfLoading')]_vars

C13_AtMostThreeAttemptsThenEnds ==
  /\ [](\A c \in PlainCalls :
          /\ netAttempts[c] <= 3
          /\ pc[c] \in {"fetching", "backoff", "ratewait"} => retryCount[c] < 3
          /\ pc[c] = "done" => result[c] \in {"ok", "response", "thrown", "offline"})
  /\ [][\A c \in PlainCalls :
          LET waiting(p) == IF p \in {"backoff", "ratewait"} THEN 1 ELSE 0
              before == 2 * retryCount[c] + waiting(pc[c])
              after == 2 * retryCount'[c] + waiting(pc'[c])
          IN  (/\ pc[c] \in {"fetching", "backoff", "ratewait"}
               /\ <<pc[c], retryCount[c]>> # <<pc'[c], retryCount'[c]>>) =>
                 (pc'[c] = "done" \/ after > before)]_vars

C13_Witness ==
  \E c \in PlainCalls :
    /\ pc[c] = "done"
    /\ result[c] = "thrown"
    /\ netAttempts[c] = 3
    /\ seen[c] = {"neterr", "rate"}

\* C14: the delay slept after the k-th attempt of a call, when that attempt
\* failed with a network error, is min(1000 * 2^(k-1), 10000) ms; a call
\* whose attempts all fail so sleeps 1000, 2000 and 4000 ms, strictly
\* increasing and never above 10000.
C14_NetworkErrorBackoff ==
  \A c \in PlainCalls :
    LET expected == <<1000, 2000, 4000>>
        n == Len(delays[c])
    IN  /\ (pc[c] = "backoff" /\ lastResp[c] = "neterr") =>
             (n = netAttempts[c] /\ delays[c][n] = expected[n])
        /\ seen[c] \subseteq {"neterr"} =>
             /\ n <= 3
             /\ \A k \in 1..n : delays[c][k] = expected[k] /\ delays[c][k] <= 10000
             /\ \A k \in 1..(n - 1) : delays[c][k] < delays[c][k + 1]

C14_Witness ==
  \E c \in PlainCalls :
    /\ result[c] = "thrown"
    /\ seen[c] = {"neterr"}
    /\ delays[c] = <<1000, 2000, 4000>>

\* C15: the counter changes only by a reset to 0 or by exactly one when a
\* call leaves the loop with its retries used up, never on a mere retry, and
\* the CONNECTION_FAILED report with its retry hook is made when the counter
\* reaches 5 and not before.
C15_CountedOncePerExhaustedCall ==
  [][/\ connectionAttempts' # connectionAttempts =>
          \/ connectionAttempts' = 0
          \/ /\ connectionAttempts' = connectionAttempts + 1
             /\ \E c \in Calls :
                  /\ pc[c] \in {"backoff", "ratewait"}
                  /\ pc'[c] = "done"
                  /\ result'[c] = "thrown"
     /\ \A c \in Calls :
          (pc[c] \in {"backoff", "ratewait"} /\ pc'[c] = "done") =>
            connectionAttempts' = connectionAttempts + 1
     /\ "CONNECTION_FAILED" \in emitted' =>
          (connectionAttempts' >= 5 /\ retryHook')
     /\ (connectionAttempts = 4 /\ connectionAttempts' = 5) =>
          ("CONNECTION_FAILED" \in emitted' /\ retryHook')]_vars

C15_Witness ==
  /\ connectionAttempts = 5
  /\ "CONNECTION_FAILED" \in emitted
  /\ raisedInStreak = 1
  /\ retryHook

\* C16: a call that starts while the offline flag is set fails at once, and
\* no network attempt is made for it.
C16_OfflineFailsWithoutNetwork ==
  /\ [](\A c \in PlainCalls : result[c] = "offline" => netAttempts[c] = 0)
  /\ [][\A c \in Calls :
          (pc[c] = "idle" /\ pc'[c] # "idle" /\ isOffline) =>
            /\ pc'[c] = "done"
            /\ result'[c] = "offline"
            /\ c \in PlainCalls => netAttempts'[c] = 0]_vars

C16_Witness ==
  \E c \in PlainCalls :
    /\ isOffline
    /\ pc[c] = "done"
    /\ result[c] = "offline"
    /\ netAttempts[c] = 0

C18_FreshIdentifierSharedBySummary ==
  /\ [](/\ \A r \in calls :
             \E d \in call_transcripts : d.id = r.id /\ d.user_id = r.user_id
        /\ \A r1, r2 \in calls : r1.id = r2.id => r1 = r2
        /\ \A i \in Ingests :
             (ipc[i] = "done" /\ iResult[i].error = "null") =>
               /\ \A r \in RowsWithId(call_transcripts, iResult[i].id) :
                    r.user_id = finalUserId[i]
               /\ RowsWithId(call_transcripts, iResult[i].id) # {})
  /\ [][\A i \in Ingests :
          /\ transcriptId'[i] \notin {NoId, transcriptId[i]} =>
               /\ RowsWithId(call_transcripts, transcriptId'[i]) = {}
               /\ RowsWithId(calls, transcriptId'[i]) = {}
          /\ (ipc[i] \in {"summary", "edge"} /\ calls' # calls) =>
               \E r \in calls' :
                 /\ calls' = calls \cup {r}
                 /\ r.id = transcriptId[i]]_vars

C18_Witness ==
  /\ Cardinality(calls) = 2
  /\ Cardinality({r.id : r \in calls}) = 2
  /\ {r.id : r \in calls} = {d.id : d \in call_transcripts}

\* C19: every detail row has an owner, and the owner of an ingestion is its
\* userId argument when there is one (the session is then not asked), else
\* the session's user when there is one, else a new anonymous identifier.
C19_OwnerResolvedInOrder ==
  /\ \A r \in call_transcripts :
       r.user_id.kind \in {"argument", "session", "anonymous"}
  /\ \A r1, r2 \in call_transcripts :
       (r1.user_id.kind = "anonymous" /\ r1.user_id = r2.user_id) => r1 = r2
  /\ \A i \in Ingests :
       transcriptId[i] # NoId =>
         /\ finalUserId[i] # NoUser
         /\ userArg[i] # NoUser =>
              (finalUserId[i] = userArg[i] /\ sessionSeen[i] = Unasked)
         /\ (userArg[i] = NoUser /\ sessionSeen[i] # NoUser) =>
              finalUserId[i] = sessionSeen[i]
         /\ (userArg[i] = NoUser /\ sessionSeen[i] = NoUser) =>
              /\ finalUserId[i].kind = "anonymous"
              /\ finalUserId[i].n # transcriptId[i]

C19_Witness ==
  /\ \E r \in call_transcripts : r.user_id.kind = "anonymous"
  /\ \E r \in call_transcripts : r.user_id = SessionUser

\* C20: an ingestion whose detail write succeeded returns its identifier
\* with a null error, whatever became of the summary write.
C20_SummaryFailureNeverReturned ==
  \A i \in Ingests :
    (ipc[i] = "done" /\ summaryAttempted[i]) =>
      iResult[i] = [id |-> transcriptId[i], error |-> "null"]

C20_Witness ==
  \E i \in Ingests :
    /\ ipc[i] = "done"
    /\ summaryAttempted[i]
    /\ iResult[i].error = "null"
    /\ RowsWithId(calls, transcriptId[i]) = {}
    /\ RowsWithId(call_transcripts, transcriptId[i]) # {}

\* C21: a first detail write that fails with a column error is followed by
\* the probe and by exactly one more write, whose payload has an optional
\* column only if the probe found it; any other error of a write ends the
\* ingestion with that error, without another write.
C21_ColumnErrorRetriedOnceWithProbedColumns ==
  \A i \in Ingests :
    LET n == Len(writeLog[i])
    IN  /\ n <= 2
        /\ n = 2 => writeLog[i][1] = "column"
        /\ ipc[i] \in {"probe", "write2"} <=> writeLog[i] = <<"column">>
        /\ ipc[i] = "write1" => payloadCols[i] = OptionalCols
        /\ (ipc[i] = "write2" \/ n = 2) => payloadCols[i] = probeSeen[i]
        /\ (n > 0 /\ writeLog[i][n] \in {"other", "column"} /\ n # 1) =>
             (ipc[i] = "done" /\ iResult[i] = [id |-> transcriptId[i],
                                               error |-> writeLog[i][n]])
        /\ writeLog[i] = <<"other">> =>
             (ipc[i] = "done" /\ iResult[i] = [id |-> transcriptId[i],
                                               error |-> "other"])

C21_Witness ==
  \E i \in Ingests :
    /\ writeLog[i] = <<"column", "ok">>
    /\ probeSeen[i] = {"keywords"}
    /\ payloadCols[i] = {"keywords"}

(***************************************************************************)
(* Claims about the trend aggregators                                      *)
(***************************************************************************)
\* C22 (as claimed): no keyword trend update and no sentiment trend update
\* ever ends by throwing to its caller.
C22_TrendUpdatesNeverThrow ==
  /\ \A u \in TrendUpdates : ktResult[u] # "threw"
  /\ \A v \in SentimentUpdates : stResult[v] # "threw"

\* C27: the confidence of every sentiment trend row follows from its label
\* alone: 0.8 for positive, 0.7 for negative, 0.6 for neutral.
C27_ConfidenceFollowsLabel ==
  \A r \in sentiment_trends :
    /\ r.row.sentiment_label = "positive" => r.row.confidence = 80
    /\ r.row.sentiment_label = "negative" => r.row.confidence = 70
    /\ r.row.sentiment_label = "neutral" => r.row.confidence = 60
    /\ \A q \in sentiment_trends :
         q.row.sentiment_label = r.row.sentiment_label =>
           q.row.confidence = r.row.confidence

C27_Witness ==
  /\ \E r \in sentiment_trends :
       r.row.sentiment_label = "negative" /\ r.row.confidence = 70
  /\ \E r \in sentiment_trends :
       r.row.sentiment_label = "positive" /\ r.row.user_id = "null"
  /\ \E r \in sentiment_trends :
       r.row.sentiment_label = "neutral" /\ r.row.user_id = "user"

(***************************************************************************)
(* Claims about the fetched snapshot                                       *)
(***************************************************************************)
\* C23 (as claimed): the three sentiment percentages of a snapshot built
\* from a row sum to 100, whatever the non-negative counts, all zero or
\* missing included.
C23_SentimentPercentsSumTo100 ==
  LET p == snapshotPercents.positiveSentiment
      q == snapshotPercents.negativeSentiment
      r == snapshotPercents.neutralSentiment
  IN  summaryCounts \in CountRows =>
        p[1] * q[2] * r[2] + q[1] * p[2] * r[2] + r[1] * p[2] * q[2]
          = 100 * p[2] * q[2] * r[2]

\* C23 (amended): the three percentages sum to 100 when the counts of the
\* row sum to more than 0, and are all 0 when every count is zero or
\* missing.
C23_SentimentPercentsSumTo100OrAllZero ==
  LET p == snapshotPercents.positiveSentiment
      q == snapshotPercents.negativeSentiment
      r == snapshotPercents.neutralSentiment
  IN  /\ TotalSentiment(summaryCounts) > 0 =>
           /\ p[1] * q[2] * r[2] + q[1] * p[2] * r[2] + r[1] * p[2] * q[2]
                = 100 * p[2] * q[2] * r[2]
           /\ p[1] >= 0 /\ q[1] >= 0 /\ r[1] >= 0
      /\ TotalSentiment(summaryCounts) = 0 =>
           (p[1] = 0 /\ q[1] = 0 /\ r[1] = 0)

C23_Witness ==
  /\ summaryCounts = [positive |-> Num(0), negative |-> Undefined,
                      neutral |-> Num(0)]
  /\ snapshotPercents = NoPercents

\* C24: every percentage field (performance score, conversion rate, agent
\* and customer talk ratio) of every stabilized snapshot is non-negative
\* and at most 100, whatever the raw input.
C24_PercentagesWithinRange ==
  LET IsPercent(x) == IsNum(x) /\ x[2] >= 0 /\ x[2] <= 10000
  IN
  (hookVersion # "none" /\ ~stableMetrics.threw) =>
    /\ IsPercent(stableMetrics.performanceScore)
    /\ IsPercent(stableMetrics.conversionRate)
    /\ IsPercent(stableMetrics.agent)
    /\ IsPercent(stableMetrics.customer)

\* C25: the surfaced flag is true only while the underlying signal has been
\* true without a break for at least the delay, it is false as soon as the
\* fetch has completed, and a fetch shorter than the delay never surfaced it.
C25_LoadingSurfacedOnlyAfterDelay ==
  /\ stableLoading =>
       (isLoading /\ loadingTicks * TickMs >= loadingDelay
                  /\ loadingTicks * TickMs >= 100)
  /\ ~isLoading => ~stableLoading
  /\ (lastFetchTicks # -1 /\ lastFetchTicks * TickMs < loadingDelay) =>
       ~lastSurfaced

\* A fetch of 50 ms has completed without surfacing the flag and the next
\* fetch has surfaced it.
C25_Witness ==
  /\ loadingDelay = 100
  /\ lastFetchTicks = 1
  /\ ~lastSurfaced
  /\ stableLoading
  /\ loadingTicks = 2

\* C26: when the metadata fails to load the duration is
\* round(size / 32000) if that is positive and 60 otherwise; 320,000 bytes
\* give 10, and the duration is at least 1.
C26_FallbackDurationFromSize ==
  audioEvent = "error" =>
    /\ audioSeconds >= 1
    /\ audioSize >= 16000 =>
         /\ 2 * 32000 * audioSeconds - 32000 <= 2 * audioSize
         /\ 2 * audioSize < 2 * 32000 * audioSeconds + 32000
    /\ audioSize < 16000 => audioSeconds = 60
    /\ audioSize = 320000 => audioSeconds = 10

C26_Witness ==
  /\ audioEvent = "error"
  /\ audioSize = 320000
  /\ audioSeconds = 10

\* C28: while a call waits after its n-th attempt was answered with 429, the
\* delay it sleeps is at least 2000 ms x n; the attempt is counted: after the
\* wait retryCount is one higher, a further attempt is made only within the
\* budget of 3, and after the third attempt the call ends with a failure.
C28_RateLimitWaitCountsAttempt ==
  /\ [](\A c \in PlainCalls :
          pc[c] = "ratewait" =>
            /\ lastResp[c] = "rate"
            /\ Len(delays[c]) = netAttempts[c]
            /\ delays[c][netAttempts[c]] >= 2000 * netAttempts[c])
  /\ [][\A c \in PlainCalls :
          (pc[c] = "ratewait" /\ pc'[c] # "ratewait") =>
            /\ retryCount'[c] = retryCount[c] + 1
            /\ pc'[c] = "fetching" =>
                 (netAttempts'[c] = netAttempts[c] + 1 /\ netAttempts'[c] <= 3)
            /\ netAttempts[c] = 3 =>
                 (pc'[c] = "done" /\ result'[c] = "thrown")]_vars

\* The second attempt of a call was answered with 429 and the call sleeps
\* 4000 ms.
C28_Witness ==
  \E c \in PlainCalls :
    /\ pc[c] = "ratewait"
    /\ netAttempts[c] = 2
    /\ delays[c][2] = 4000

\* C29: the count of an existing (keyword, category) row is never lost or
\* decreased: every step leaves the count of a row that exists at least as
\* large as it was, however the updates interleave.
C29_ExistingCountNeverDecreases ==
  [][\A k \in TrendKeys :
       keyword_trends[k] > 0 => keyword_trends'[k] >= keyword_trends[k]]_vars

\* C30: each completion of a fetch replaces the snapshot as a whole, so that
\* the snapshot depends only on the outcome of the fetch that completed
\* last: after a completion without a row (store error, no row, exception)
\* nothing of a row an earlier fetch brought is left in it.
C30_SnapshotFromLastCompletionOnly ==
  [][\A f \in Fetches :
       (/\ fetchPc[f] = "pending"
        /\ fetchPc'[f] = "idle"
        /\ metrics'.lastError # "null") =>
         metrics'.data \notin SummaryRows]_vars

\* C31 (as claimed): when no two keyword-trend updates overlap, every
\* iteration of the loop for one of the first 5 keywords inserts the row with
\* count 1 if it is absent and otherwise increases its count by exactly 1;
\* rows of keywords after the fifth are never written.
C31_EachKeywordCountedOnce ==
  /\ [](\A k \in TrendKeys : k[1] = "k6" => keyword_trends[k] = 0)
  /\ [][\A u \in TrendUpdates :
          (/\ ~ktOverlapped
           /\ ktPc[u] \in {"select", "write"}
           /\ ktKeywords'[u] = Tail(ktKeywords[u])) =>
            keyword_trends'[TrendKey(u)] =
              IF keyword_trends[TrendKey(u)] = 0 THEN 1
              ELSE keyword_trends[TrendKey(u)] + 1]_vars

\* C31 (amended): when no two keyword-trend updates overlap, every write the
\* store applies for one of the first 5 keywords inserts the row with count 1
\* if it is absent and otherwise increases its count by exactly 1, and no
\* other step changes the table, so that the count of a row is the number of
\* writes applied to it; rows of keywords after the fifth are never written.
C31_EachAppliedWriteCountedOnce ==
  /\ [](\A k \in TrendKeys :
          /\ k[1] = "k6" => keyword_trends[k] = 0
          /\ ~ktOverlapped => keyword_trends[k] = ktApplied[k])
  /\ [][~ktOverlapped' =>
          \A k \in TrendKeys :
            IF ktApplied'[k] # ktApplied[k]
              THEN keyword_trends'[k] =
                     IF keyword_trends[k] = 0 THEN 1 ELSE keyword_trends[k] + 1
              ELSE keyword_trends'[k] = keyword_trends[k]]_vars

\* Three updates that did not overlap have each written the row of k1.
C31_Witness ==
  /\ ~ktOverlapped
  /\ ktStarted = 3
  /\ keyword_trends[<<"k1", "positive">>] = 3
  /\ \A u \in TrendUpdates : ktPc[u] \in {"idle", "done"}

\* C32: an invocation of the repair shows exactly one toast, and the step
\* that shows it is the last step of the invocation: the re-fetch the repair
\* starts has completed before the toast, so that no re-fetch of the repair
\* is under way once the toast has been shown.
C32_RepairToastIsTerminal ==
  /\ [](repairPc = "refetch" => repairToasts = 0)
  /\ [][(repairPc # "idle" /\ repairPc' = "idle") =>
          (repairToasts' = 1 /\ toasted' \cap {RepairToast(r) : r \in RepairResults} # {})]_vars

\* C33: the channel is subscribed exactly between mount and teardown; while
\* it is, a notification for either table can always start a fetch, and the
\* step of a notification starts exactly one fetch; after teardown no
\* notification starts a fetch.
C33_NotificationsRefetchWhileSubscribed ==
  /\ [](subscribed <=> phase = "mounted")
  /\ [](\A f \in Fetches :
          (phase = "mounted" /\ fetchPc[f] = "idle") =>
            /\ ENABLED ChangeNotification(f, "call_metrics_summary")
            /\ ENABLED ChangeNotification(f, "call_transcripts"))
  /\ [][\A f \in Fetches :
          (fetchPc[f] = "idle" /\ fetchPc'[f] = "pending"
             /\ fetchOrigin'[f] = "notify") =>
            /\ phase = "mounted" /\ subscribed
            /\ \A g \in Fetches \ {f} : fetchPc'[g] = fetchPc[g]
            /\ metrics'.isLoading]_vars

\* A fetch started by a notification is under way, and so is another fetch.
C33_Witness ==
  /\ phase = "mounted"
  /\ \E f \in Fetches :
       /\ fetchPc[f] = "pending" /\ fetchOrigin[f] = "notify"
       /\ \E g \in Fetches \ {f} : fetchPc[g] = "pending"

\* C34: the acknowledgment of a refresh is shown exactly once, by the step
\* in which the fetch of that refresh completes and not before; fetches
\* started by mount, by a notification or by the repair show none.  (A step
\* of PerformanceMetrics, which changes perfVars, shows no toast and leaves
\* the latest ones standing.)
C34_RefreshAcknowledgedOnceAfterFetch ==
  [][/\ \A f \in Fetches :
          (fetchPc[f] = "pending" /\ fetchPc'[f] = "idle") =>
            IF fetchOrigin[f] = "refresh"
              THEN toasted' = {"Metrics Refreshed"}
              ELSE (fetchOrigin[f] \in {"mount", "notify", "repair"}
                      /\ "Metrics Refreshed" \notin toasted')
     /\ (perfVars' = perfVars /\ "Metrics Refreshed" \in toasted') =>
          \E f \in Fetches :
            /\ fetchOrigin[f] = "refresh"
            /\ fetchPc[f] = "pending" /\ fetchPc'[f] = "idle"]_vars

\* The fetch of a refresh has completed and been acknowledged while a fetch
\* started by a notification is still under way.
C34_Witness ==
  /\ toasted = {"Metrics Refreshed"}
  /\ \E f \in Fetches : fetchPc[f] = "pending" /\ fetchOrigin[f] = "notify"

\* C35: whatever the raw snapshot (null, or any fields missing, the talk
\* ratio object or a part of it among them), stabilization does not throw
\* and every field of its value is defined.
C35_StabilizationTotalAndDefined ==
  hookVersion # "none" =>
    /\ ~stableMetrics.threw
    /\ \A x \in {stableMetrics.performanceScore, stableMetrics.conversionRate,
                 stableMetrics.totalCalls, stableMetrics.avgSentiment,
                 stableMetrics.agent, stableMetrics.customer} : x # Undefined
    /\ stableMetrics.topKeywords # "undefined"

\* C36 (as claimed): while the counter of failed calls stays below the
\* threshold, no step of a call raises an error condition that is shown to the
\* user with an action to take (actionable: true).
C36_SilentBelowThreshold ==
  [][\A c \in PlainCalls :
       (pc[c] \in {"fetching", "backoff", "ratewait"}
          /\ <<pc[c], retryCount[c]>> # <<pc'[c], retryCount'[c]>>
          /\ connectionAttempts' < MAX_CONNECTION_ATTEMPTS) =>
         emitted' \cap {"SUPABASE_CONNECTION", "CONNECTION_FAILED"} = {}]_vars

\* C36 (amended): a step after which the call goes on (a failed attempt that
\* is waited on and tried again) or ends with a response raises no actionable
\* error condition; the step in which a call has used up its retries raises
\* SUPABASE_CONNECTION whatever the counter, and CONNECTION_FAILED exactly
\* when the counter has reached the threshold.
C36_ActionableOnlyWhenRetriesUsedUp ==
  [][\A c \in PlainCalls :
       (pc[c] \in {"fetching", "backoff", "ratewait"}
          /\ <<pc[c], retryCount[c]>> # <<pc'[c], retryCount'[c]>>) =>
         IF pc'[c] = "done" /\ result'[c] = "thrown"
           THEN /\ retryCount'[c] = maxRetries
                /\ connectionAttempts' = connectionAttempts + 1
                /\ "SUPABASE_CONNECTION" \in emitted'
                /\ "CONNECTION_FAILED" \in emitted' <=>
                     connectionAttempts' >= MAX_CONNECTION_ATTEMPTS
           ELSE emitted' \cap {"SUPABASE_CONNECTION", "CONNECTION_FAILED"} = {}]_vars

\* The first call of a streak has used up its retries: the counter is 1 and
\* SUPABASE_CONNECTION has been raised without CONNECTION_FAILED.
C36_Witness ==
  /\ connectionAttempts = 1
  /\ emitted = {"SUPABASE_CONNECTION"}
  /\ \E c \in PlainCalls : pc[c] = "done" /\ result[c] = "thrown"

\* C37: at every moment after mount, whatever the interleaving of the
\* fetches, the isLoading flag of the provider's metrics is true exactly when
\* at least one fetch is under way.
C37_LoadingIffFetchInFlight ==
  phase # "init" =>
    (metrics.isLoading <=> \E f \in Fetches : fetchPc[f] = "pending")

\* C38: the step in which an attempt of a call is answered by a response of
\* the server, whatever its status or body, neither sets the connection flag
\* to not connected nor emits the connection-lost event; only a rejected
\* fetch does.
C38_ResponseNeverMarksConnectionLost ==
  [][\A c \in PlainCalls :
       (pc[c] = "fetching" /\ pc'[c] # "fetching" /\ lastResp'[c] # "neterr") =>
         /\ "supabase-connection-lost" \notin emitted'
         /\ isSupabaseConnected => isSupabaseConnected']_vars

\* C39: with isLoading false, processMetricsData reports isUsingDemoData
\* true exactly when the raw record is null or has no keys, whatever hasError
\* is; with isLoading true it returns the initial values, no formatted
\* metrics and isUsingDemoData false.  (Calls in which
\* formatMetricsForDisplay returns null or throws are left aside.)
C39_DemoIffRecordMissingOrEmpty ==
  (processInput.formatRaw = "formatted" /\ processInput.formatDemo = "formatted") =>
    IF processInput.isLoading
      THEN processResult = InitialResult(TRUE)
      ELSE /\ processResult.isUsingDemoData <=>
                processInput.rawData \in {"null", "empty"}
           /\ processResult.isUsingDemoData =>
                /\ processResult.data = "demo"
                /\ processResult.lastError \notin {"null", "initial"}

\* C40: every invocation of the ingestion eventually returns its result,
\* given that every store call it issues comes back; no step, the duration
\* computation in particular, leaves it waiting forever.
C40_IngestionEventuallyReturns ==
  \A i \in Ingests : (ipc[i] \notin {"idle", "done"}) ~> (ipc[i] = "done")

====
